---- MODULE Spec2Model ----
(***************************************************************************)
(* Paycheck licensing service: the device-acquisition engine, the public   *)
(* redeem / validate / devices handlers, the org-side license handlers and *)
(* the payment webhooks, modelled as request processes over the shared     *)
(* SQLite store.  Every handler is a process that runs its statements in   *)
(* source order; statements that the source runs outside a transaction     *)
(* are separate steps, so requests interleave between them.                *)
(***************************************************************************)
EXTENDS Integers, Sequences, FiniteSets, TLC

\* ---------------------------------------------------------------- bounds
NumProcs == 2
MaxUid == 3
NumDeviceIds == 2
MaxDeviceLimit == 1
MaxActivationLimit == 1
MaxTicks == 1
MaxScopes == 2

\* ------------------------------------------------------ program constants
SECONDS_PER_DAY == 86400
ACTIVATION_CODE_TTL_SECONDS == 30 * 60

Null == 0 - 1

Procs == 1..NumProcs
\* the value of wlock when no transaction holds the write lock
NoProc == CHOOSE n \in 0..NumProcs : n \notin Procs
Uids == 1..MaxUid
DeviceIds == 1..NumDeviceIds
Projects == {"prj1", "prj2"}
ProductIds == {"prod1"}
SessionIds == {"s1"}
Providers == {"stripe", "lemonsqueezy"}
EventIds == {"evt1", "evt2"}
\* the license that exists at the start, and the device the open payment
\* session was started from
SeedLicense == CHOOSE u \in Uids : \A v \in Uids : u <= v
SessionDeviceId == CHOOSE d \in DeviceIds : \A e \in DeviceIds : d <= e

VARIABLES
  now,          \* Utc::now().timestamp()
  ticks,        \* number of clock advances so far (bounded)
  nextUid,      \* supply of fresh Uuid::new_v4() values: a request takes one
                \* number for the ids it generates (at most one per table and
                \* one jti, which live in namespaces that are never compared)
  products,     \* products table: id -> row
  licenses,     \* licenses table: id -> row
  devices,      \* devices table: set of rows
  sessions,     \* payment_sessions table: id -> row
  codes,        \* redemption codes minted by the callback: set of rows
  wlock,        \* holder of the SQLite write lock (IMMEDIATE transaction)
  pc,           \* per request process: position in its handler
  loc,          \* per request process: the handler's local variables
  created,      \* history: per license, acquisitions that inserted a Device
  deactivated,  \* history: jtis held by Device rows removed by a deactivation
  issued,       \* history: per payment session, licenses created for it
  acodes,       \* activation_codes table: set of rows
  events,       \* webhook_events table: set of rows
  renewed,      \* history: per renewal event id, expires_at after its first
                \* processed delivery
  auth,         \* the org-auth middleware's request and its outcome
  audit,        \* the audit database: its pool, its table and whether
                \* logging is enabled
  api_keys,     \* api_keys table: id -> row
  projects,     \* projects table: id -> row (the redirect allowlist)
  soft,         \* deleted_at and deleted_cascade_depth of the rows of the
                \* cascade tree, with the deletion that set them (history)
  email,        \* the email settings of a project, its org and the system,
                \* and the outbound calls made
  operators     \* operators table: id -> role, "none" where there is no row

vars == <<now, ticks, nextUid, products, licenses, devices, sessions, codes,
          wlock, pc, loc, created, deactivated, issued, acodes, events,
          renewed, auth, audit, api_keys, projects, soft, email, operators>>

\* --------------------------------------------------------------- helpers
NoLoc ==
  [op |-> "none", lic |-> Null, dev |-> Null, proj |-> "none", jti |-> Null,
   row |-> Null, rjti |-> Null, count |-> Null, act |-> Null, jtis |-> <<>>,
   dlimit |-> Null, alimit |-> Null, sess |-> "none", prod |-> "none",
   newlic |-> Null, at |-> Null, days |-> Null, after |-> FALSE,
   sig |-> "none", url |-> "none", query |-> {}, res |-> "none"]

\* ----------------------------------------------------------- operators
OperatorIds == {"op1", "op2"}

OperatorRoles == {"owner", "admin", "view"}

\* the operators table of a fresh installation: the bootstrap owner
SeedOperators == [o \in OperatorIds |-> IF o = "op1" THEN "owner" ELSE "none"]

\* ---------------------------------------------------- soft delete, rows
\* one project, its product, and the product's two licenses
SoftIds == {"prj1", "prod1", "lic1", "lic2"}

Table(id) ==
  IF id = "prj1" THEN "projects"
  ELSE IF id = "prod1" THEN "products"
  ELSE "licenses"

\* the value of a row's foreign key column; "none" where the table has no
\* such column
Fk(id, fk_column) ==
  IF Table(id) = "products" /\ fk_column = "project_id" THEN "prj1"
  ELSE IF Table(id) = "licenses" /\ fk_column = "project_id" THEN "prj1"
  ELSE IF Table(id) = "licenses" /\ fk_column = "product_id" THEN "prod1"
  ELSE "none"

\* deleted_at IS NULL
Live == [deleted_at |-> Null, deleted_cascade_depth |-> Null, by |-> "none"]

\* email disabled, nothing configured, nothing sent
NoEmail ==
  [email_enabled |-> FALSE, email_webhook_url |-> "none",
   org_resend_key |-> "none", system_api_key |-> "none", outbound |-> {}]

SeqContains(s, x) == \E i \in 1..Len(s) : s[i] = x

DevicesOf(l) == {r \in devices : r.license_id = l}

DeviceFor(l, d) == {r \in devices : r.license_id = l /\ r.device_id = d}

DeviceByJti(j) == {r \in devices : r.jti = j}

DeviceById(id) == {r \in devices : r.id = id}

count_devices_for_license(l) == Cardinality(DevicesOf(l))

ProductOf(l) == licenses[l].product_id

\* LicenseExpirations::from_days, license_exp only
from_days(days, base_time) ==
  IF days = Null THEN Null ELSE base_time + days * SECONDS_PER_DAY

\* UNIQUE (license_id, device_id) index of the devices table
UniqueIndexBroken(l, d) == TRUE

UniqueDeviceIndex(l, d) == DeviceFor(l, d) = {}

\* INSERT INTO devices ... : the new table, the row stamped with now
create_device(id, l, d, j) ==
  devices \cup {[id |-> id, license_id |-> l, device_id |-> d, jti |-> j,
                 activated_at |-> now, last_seen_at |-> now]}

\* a second row for the device in place of the UPDATE
insert_device_row_for_jti(id, j) ==
  devices \cup {[r EXCEPT !.id = j, !.jti = j, !.last_seen_at = now] :
                  r \in {x \in devices : x.id = id}}

\* the UPDATE without its jti column
update_device_seen_keeping_jti(id, j) ==
  {IF r.id = id THEN [r EXCEPT !.last_seen_at = now] ELSE r : r \in devices}

\* UPDATE devices SET jti = ?1, last_seen_at = ?2 WHERE id = ?3
update_device_jti(id, j) ==
  {IF r.id = id THEN [r EXCEPT !.jti = j, !.last_seen_at = now] ELSE r
     : r \in devices}

\* UPDATE devices SET last_seen_at = ?1 WHERE id = ?2
update_device_last_seen(id) ==
  {IF r.id = id THEN [r EXCEPT !.last_seen_at = now] ELSE r : r \in devices}

ActivationCountUnchanged(l) == licenses

\* UPDATE licenses SET activation_count = activation_count + 1 WHERE id = ?1
increment_activation_count(l) ==
  IF l \in DOMAIN licenses
    THEN [licenses EXCEPT ![l].activation_count = @ + 1]
    ELSE licenses

\* device_limit > 0 && current_device_count >= device_limit
DeviceLimitReached(limit, count) == limit > 0 /\ count >= limit

\* the test with > in place of >=
ActivationLimitExceeded(limit, count) == limit > 0 /\ count > limit

\* activation_limit > 0 && current_activation_count >= activation_limit
ActivationLimitReached(limit, count) == limit > 0 /\ count >= limit

\* TransactionBehavior::Immediate: the write lock is taken when the
\* transaction begins, so it begins only while no other writer holds it.
DeferredLockAvailable == TRUE

ImmediateLockAvailable == wlock = NoProc

\* A single autocommit write statement needs the write lock for its duration.
WriteLockFree == ImmediateLockAvailable

Release(p) == IF wlock = p THEN NoProc ELSE wlock

Goto(p, label) == pc' = [pc EXCEPT ![p] = label]

Return(p, result) ==
  /\ pc' = [pc EXCEPT ![p] = "done"]
  /\ loc' = [loc EXCEPT ![p].res = result]

\* the middleware has no request at hand
NoAuth == [stage |-> "none"]

\* The audit database: state.audit_log_enabled, whether state.audit.get()
\* hands out a connection, whether the INSERT INTO audit_logs succeeds, and
\* the rows written so far as (action, resource_id).
\* audit logging switched off (audit_log_enabled = false): the pool gives
\* connections and nothing is written
AuditOk == [enabled |-> FALSE, pool |-> TRUE, insert |-> TRUE, logs |-> {}]

AuditStates ==
  [enabled : BOOLEAN, pool : BOOLEAN, insert : BOOLEAN, logs : {{}}]

\* create_audit_log: nothing is written when logging is disabled; otherwise
\* the INSERT, whose error is returned
create_audit_log_fails == audit.enabled /\ ~audit.insert

create_audit_log(action, resource_id) ==
  IF audit.enabled /\ audit.insert
    THEN [audit EXCEPT !.logs = @ \cup {[action |-> action,
                                          resource_id |-> resource_id]}]
    ELSE audit

\* util::audit_log: request info from the headers, then create_audit_log;
\* a failing write is not passed on to the caller
audit_log(action, resource_id) == create_audit_log(action, resource_id)

\* ------------------------------------------------------------------ Init
\* One product, one license created for it at time 0 (its expires_at
\* computed from the product's days as create_license does), one open
\* payment session.  DL, AL and Days are the product settings drawn.
InitTables(DL, AL, Days, Seeded) ==
  /\ now = 0
  /\ ticks = 0
  /\ nextUid = SeedLicense + 1
  /\ \E dl \in DL, al \in AL, days \in Days :
       /\ products = [x \in ProductIds |->
                        [project_id |-> "prj1", device_limit |-> dl,
                         activation_limit |-> al, license_exp_days |-> days]]
       /\ licenses = (SeedLicense :>
                        [product_id |-> "prod1",
                         activation_count |-> Cardinality(Seeded),
                         revoked |-> FALSE, revoked_jtis |-> <<>>,
                         expires_at |-> from_days(days, 0),
                         payment_provider |-> "stripe",
                         payment_provider_subscription_id |-> "sub1"])
  /\ devices = {[id |-> SeedLicense, license_id |-> SeedLicense,
                 device_id |-> d, jti |-> SeedLicense, activated_at |-> 0,
                 last_seen_at |-> 0] : d \in Seeded}
  /\ codes = {}
  /\ wlock = NoProc
  /\ pc = [p \in Procs |-> "idle"]
  /\ loc = [p \in Procs |-> NoLoc]
  /\ created = [l \in Uids |-> IF l = SeedLicense THEN Cardinality(Seeded)
                                ELSE 0]
  /\ deactivated = {}
  /\ issued = [s \in SessionIds |-> {}]
  /\ acodes = {}
  /\ events = {}
  /\ renewed = [e \in EventIds |-> {}]
  /\ api_keys = [k \in {} |-> Null]
  /\ soft = [id \in SoftIds |-> Live]

\* the open payment session: not completed, no license, no redirect URL
OpenSession ==
  [product_id |-> "prod1", completed |-> FALSE, license_id |-> Null,
   device_id |-> SessionDeviceId, redirect_url |-> "none"]

InitStore(DL, AL, Days, Seeded) ==
  /\ InitTables(DL, AL, Days, Seeded)
  /\ operators = SeedOperators
  /\ sessions = [s \in SessionIds |-> OpenSession]
  /\ projects = [x \in Projects |-> [allowed_redirect_urls |-> {}]]
  /\ email = NoEmail

\* the store before any device is activated
InitData(DL, AL, Days) == InitStore(DL, AL, Days, {})

InitWith(DL, AL, Days) ==
  InitData(DL, AL, Days) /\ auth = NoAuth /\ audit = AuditOk

Init == InitWith(0..MaxDeviceLimit, 0..MaxActivationLimit, {Null, 1})

\* Limits only: expiry plays no part where the clock does not advance
InitLimits == InitWith(0..MaxDeviceLimit, 0..MaxActivationLimit, {Null})

\* Expiry only: unlimited devices and activations
InitExpiry == InitWith({0}, {0}, {Null, 1})

\* ------------------------------------------- acquire_device_atomic (engine)
\* The caller reads the product's limits and draws a fresh jti, then the
\* function opens its IMMEDIATE transaction.
acquire_device_atomic_begin(p, l, d) ==
  /\ pc[p] = "idle"
  /\ l \in DOMAIN licenses
  /\ ProductOf(l) \in DOMAIN products
  /\ nextUid <= MaxUid
  /\ ImmediateLockAvailable
  /\ wlock' = p
  /\ loc' = [loc EXCEPT ![p] =
               [NoLoc EXCEPT !.op = "acquire", !.lic = l, !.dev = d,
                  !.jti = nextUid,
                  !.dlimit = products[ProductOf(l)].device_limit,
                  !.alimit = products[ProductOf(l)].activation_limit]]
  /\ nextUid' = nextUid + 1
  /\ Goto(p, "acq_check")
  /\ UNCHANGED <<now, ticks, products, licenses, devices, sessions, codes,
                 created, deactivated, issued,
                 acodes, events, renewed, auth, audit,
                 api_keys, projects, soft, email, operators>>

\* The reads of the transaction: existing device, device count, activation
\* count; a limit error drops the transaction without writing.
acquire_device_atomic_check(p) ==
  /\ pc[p] = "acq_check"
  /\ LET l == loc[p].lic
         existing == DeviceFor(l, loc[p].dev)
     IN  IF existing # {}
           THEN /\ loc' = [loc EXCEPT ![p].row = (CHOOSE r \in existing : TRUE).id]
                /\ Goto(p, "acq_update")
                /\ UNCHANGED wlock
           ELSE IF DeviceLimitReached(loc[p].dlimit, count_devices_for_license(l))
             THEN /\ Return(p, "DeviceLimitReached")
                  /\ wlock' = Release(p)
           ELSE IF l \notin DOMAIN licenses
             THEN /\ Return(p, "Internal")
                  /\ wlock' = Release(p)
           ELSE IF ActivationLimitReached(loc[p].alimit, licenses[l].activation_count)
             THEN /\ Return(p, "ActivationLimitReached")
                  /\ wlock' = Release(p)
           ELSE /\ Goto(p, "acq_insert")
                /\ UNCHANGED <<loc, wlock>>
  /\ UNCHANGED <<now, ticks, nextUid, products, licenses, devices, sessions,
                 codes, created, deactivated, issued,
                 acodes, events, renewed, auth, audit,
                 api_keys, projects, soft, email, operators>>

\* Existing device: rotate the jti, set last_seen_at, commit.
acquire_device_atomic_update(p) ==
  /\ pc[p] = "acq_update"
  /\ devices' = update_device_jti(loc[p].row, loc[p].jti)
  /\ wlock' = Release(p)
  /\ Return(p, "Existing")
  /\ UNCHANGED <<now, ticks, nextUid, products, licenses, sessions, codes,
                 created, deactivated, issued,
                 acodes, events, renewed, auth, audit,
                 api_keys, projects, soft, email, operators>>

\* New device: insert the row, increment activation_count, commit.
acquire_device_atomic_insert(p) ==
  /\ pc[p] = "acq_insert"
  /\ IF UniqueDeviceIndex(loc[p].lic, loc[p].dev)
       THEN /\ devices' = create_device(loc[p].jti, loc[p].lic, loc[p].dev, loc[p].jti)
            /\ licenses' = increment_activation_count(loc[p].lic)
            /\ created' = [created EXCEPT ![loc[p].lic] = @ + 1]
            /\ Return(p, "Created")
       ELSE /\ Return(p, "Internal")
            /\ UNCHANGED <<devices, licenses, created>>
  /\ wlock' = Release(p)
  /\ UNCHANGED <<now, ticks, nextUid, products, sessions, codes, deactivated,
                 issued,
                 acodes, events, renewed, auth, audit,
                 api_keys, projects, soft, email, operators>>

\* ---------------------------------- device deactivation (public and admin)
\* add_revoked_jti is a read (get_license_by_id) followed by a write of the
\* whole list, with no transaction around the two statements.
RevokedJtisWritten(l, jtis, j) ==
  IF l \in DOMAIN licenses
    THEN [licenses EXCEPT ![l].revoked_jtis = Append(jtis, j)]
    ELSE licenses

\* DELETE FROM devices WHERE id = ?1
DeleteDeviceNoop(id) == devices

delete_device(id) == {r \in devices : r.id # id}

\* DELETE FROM devices WHERE license_id = ?1 AND device_id = ?2
delete_device_by_device_id(l, d) ==
  {r \in devices : ~(r.license_id = l /\ r.device_id = d)}

\* The lookups shared by both deactivation handlers: license, product,
\* project match, device.
DeactivateLookup(p, opname, l, d, proj) ==
  IF l \notin DOMAIN licenses
    THEN /\ Return(p, "NotFound")
    ELSE IF ProductOf(l) \notin DOMAIN products
      THEN /\ Return(p, IF opname = "deactivate_admin" THEN "NotFound" ELSE "Internal")
    ELSE IF products[ProductOf(l)].project_id # proj
      THEN /\ Return(p, "NotFound")
    ELSE IF DeviceFor(l, d) = {}
      THEN /\ Return(p, "NotFound")
    ELSE LET dv == CHOOSE r \in DeviceFor(l, d) : TRUE
         IN  /\ loc' = [loc EXCEPT ![p] =
                          [NoLoc EXCEPT !.op = opname, !.lic = l, !.dev = d,
                             !.proj = proj, !.row = dv.id, !.rjti = dv.jti]]
             /\ Goto(p, "deact_read")

\* POST /devices/deactivate
deactivate_device(p, l, d, proj) ==
  /\ pc[p] = "idle"
  /\ DeactivateLookup(p, "deactivate", l, d, proj)
  /\ UNCHANGED <<now, ticks, nextUid, products, licenses, devices, sessions,
                 codes, wlock, created, deactivated, issued,
                 acodes, events, renewed, auth, audit,
                 api_keys, projects, soft, email, operators>>

\* org handler: can_write_project, then the same lookups
deactivate_device_admin(p, l, d, proj, canWrite) ==
  /\ pc[p] = "idle"
  /\ IF ~canWrite
       THEN Return(p, "Forbidden")
       ELSE IF ~audit.pool
         THEN Return(p, "Internal")
       ELSE DeactivateLookup(p, "deactivate_admin", l, d, proj)
  /\ UNCHANGED <<now, ticks, nextUid, products, licenses, devices, sessions,
                 codes, wlock, created, deactivated, issued,
                 acodes, events, renewed, auth, audit,
                 api_keys, projects, soft, email, operators>>

\* add_revoked_jti, first statement: read the license's revoked_jtis
add_revoked_jti_read(p) ==
  /\ pc[p] = "deact_read"
  /\ IF loc[p].lic \in DOMAIN licenses
       THEN /\ loc' = [loc EXCEPT ![p].jtis = licenses[loc[p].lic].revoked_jtis]
            /\ Goto(p, "deact_write")
       ELSE Return(p, "NotFound")
  /\ UNCHANGED <<now, ticks, nextUid, products, licenses, devices, sessions,
                 codes, wlock, created, deactivated, issued,
                 acodes, events, renewed, auth, audit,
                 api_keys, projects, soft, email, operators>>

\* add_revoked_jti, second statement: write the list read, plus the jti
add_revoked_jti_write(p) ==
  /\ pc[p] = "deact_write"
  /\ WriteLockFree
  /\ licenses' = RevokedJtisWritten(loc[p].lic, loc[p].jtis, loc[p].rjti)
  /\ Goto(p, "deact_delete")
  /\ UNCHANGED <<now, ticks, nextUid, products, devices, sessions, codes,
                 wlock, loc, created, deactivated, issued,
                 acodes, events, renewed, auth, audit,
                 api_keys, projects, soft, email, operators>>

\* delete the Device row (by row id for the admin handler, by
\* (license_id, device_id) for the public one) and count what remains
deactivate_delete(p) ==
  /\ pc[p] = "deact_delete"
  /\ WriteLockFree
  /\ devices' = IF loc[p].op = "deactivate_admin"
                  THEN delete_device(loc[p].row)
                  ELSE delete_device_by_device_id(loc[p].lic, loc[p].dev)
  /\ deactivated' = deactivated \cup
       {r.jti : r \in
          IF loc[p].op = "deactivate_admin"
            THEN DeviceById(loc[p].row)
            ELSE DeviceFor(loc[p].lic, loc[p].dev)}
  /\ audit' = IF loc[p].op = "deactivate_admin"
                 THEN audit_log("deactivate_device", ToString(loc[p].row))
                 ELSE audit
  /\ Return(p, "deactivated")
  /\ UNCHANGED <<now, ticks, nextUid, products, licenses, sessions, codes,
                 wlock, created, issued,
                 acodes, events, renewed, auth,
                 api_keys, projects, soft, email, operators>>

\* ------------------------------------------------ redeem_license (GET /redeem)
\* License, product and project lookups with the revoked / expired checks.
\* The jti (Uuid::new_v4) does not depend on the store and is drawn here.
redeem_license_lookup(p, l, d, proj) ==
  /\ pc[p] = "idle"
  /\ nextUid <= MaxUid
  /\ nextUid' = nextUid + 1
  /\ IF l \notin DOMAIN licenses
       THEN /\ loc' = [loc EXCEPT ![p] = [NoLoc EXCEPT !.op = "redeem", !.res = "NotFound"]]
            /\ Goto(p, "done")
     ELSE IF licenses[l].revoked
       THEN /\ loc' = [loc EXCEPT ![p] = [NoLoc EXCEPT !.op = "redeem", !.res = "LicenseRevoked"]]
            /\ Goto(p, "done")
     ELSE IF licenses[l].expires_at # Null /\ now > licenses[l].expires_at
       THEN /\ loc' = [loc EXCEPT ![p] = [NoLoc EXCEPT !.op = "redeem", !.res = "LicenseExpired"]]
            /\ Goto(p, "done")
     ELSE IF ProductOf(l) \notin DOMAIN products
       THEN /\ loc' = [loc EXCEPT ![p] = [NoLoc EXCEPT !.op = "redeem", !.res = "Internal"]]
            /\ Goto(p, "done")
     ELSE IF products[ProductOf(l)].project_id # proj
       THEN /\ loc' = [loc EXCEPT ![p] = [NoLoc EXCEPT !.op = "redeem", !.res = "NotFound"]]
            /\ Goto(p, "done")
     ELSE /\ loc' = [loc EXCEPT ![p] =
                       [NoLoc EXCEPT !.op = "redeem", !.lic = l, !.dev = d,
                          !.proj = proj, !.jti = nextUid,
                          !.act = licenses[l].activation_count,
                          !.dlimit = products[ProductOf(l)].device_limit,
                          !.alimit = products[ProductOf(l)].activation_limit]]
          /\ Goto(p, "red_count")
  /\ UNCHANGED <<now, ticks, products, licenses, devices, sessions, codes,
                 wlock, created, deactivated, issued,
                 acodes, events, renewed, auth, audit,
                 api_keys, projects, soft, email, operators>>

\* count_devices_for_license
redeem_license_count(p) ==
  /\ pc[p] = "red_count"
  /\ loc' = [loc EXCEPT ![p].count = count_devices_for_license(loc[p].lic)]
  /\ Goto(p, "red_device")
  /\ UNCHANGED <<now, ticks, nextUid, products, licenses, devices, sessions,
                 codes, wlock, created, deactivated, issued,
                 acodes, events, renewed, auth, audit,
                 api_keys, projects, soft, email, operators>>

\* get_device_for_license, then the device-limit and activation-limit checks
\* on the values read so far
redeem_license_check(p) ==
  /\ pc[p] = "red_device"
  /\ LET existing == DeviceFor(loc[p].lic, loc[p].dev)
     IN  IF existing = {} /\ DeviceLimitReached(loc[p].dlimit, loc[p].count)
           THEN Return(p, "DeviceLimitReached")
         ELSE IF existing = {} /\ ActivationLimitReached(loc[p].alimit, loc[p].act)
           THEN Return(p, "ActivationLimitReached")
         ELSE /\ loc' = [loc EXCEPT ![p].row =
                           IF existing = {} THEN Null
                           ELSE (CHOOSE r \in existing : TRUE).id]
              /\ Goto(p, "red_write")
  /\ UNCHANGED <<now, ticks, nextUid, products, licenses, devices, sessions,
                 codes, wlock, created, deactivated, issued,
                 acodes, events, renewed, auth, audit,
                 api_keys, projects, soft, email, operators>>

\* update_device_jti for an existing device, create_device for a new one
redeem_license_write(p) ==
  /\ pc[p] = "red_write"
  /\ WriteLockFree
  /\ IF loc[p].row # Null
       THEN /\ devices' = update_device_jti(loc[p].row, loc[p].jti)
            /\ Return(p, "ok")
            /\ UNCHANGED created
     ELSE IF UniqueDeviceIndex(loc[p].lic, loc[p].dev)
       THEN /\ devices' = create_device(loc[p].jti, loc[p].lic, loc[p].dev, loc[p].jti)
            /\ created' = [created EXCEPT ![loc[p].lic] = @ + 1]
            /\ Goto(p, "red_incr")
            /\ UNCHANGED loc
     ELSE /\ Return(p, "Internal")
          /\ UNCHANGED <<devices, created>>
  /\ UNCHANGED <<now, ticks, nextUid, products, licenses, sessions, codes,
                 wlock, deactivated, issued,
                 acodes, events, renewed, auth, audit,
                 api_keys, projects, soft, email, operators>>

\* increment_activation_count
redeem_license_increment(p) ==
  /\ pc[p] = "red_incr"
  /\ WriteLockFree
  /\ licenses' = increment_activation_count(loc[p].lic)
  /\ Return(p, "ok")
  /\ UNCHANGED <<now, ticks, nextUid, products, devices, sessions, codes,
                 wlock, created, deactivated, issued,
                 acodes, events, renewed, auth, audit,
                 api_keys, projects, soft, email, operators>>

\* -------------------------------------------- validate_license (GET /validate)
\* now > expires_at
LicenseExpired(expires_at) == expires_at # Null /\ now > expires_at

\* Device by jti, its license, and the revoked / revoked-jti / expired checks:
\* "invalid", or "continue" to the product lookup.
ValidateLookupVerdict(j) ==
  IF DeviceByJti(j) = {} THEN "invalid"
  ELSE LET dv == CHOOSE r \in DeviceByJti(j) : TRUE
       IN  IF dv.license_id \notin DOMAIN licenses THEN "invalid"
           ELSE IF licenses[dv.license_id].revoked THEN "invalid"
           ELSE IF SeqContains(licenses[dv.license_id].revoked_jtis, j) THEN "invalid"
           ELSE IF LicenseExpired(licenses[dv.license_id].expires_at) THEN "invalid"
           ELSE "continue"

\* Product lookup, project match, and the per-device license_exp computed
\* from the product's days and the device's activated_at.
ValidateFinishVerdict(prod, proj, activated_at) ==
  IF prod \notin DOMAIN products THEN "Internal"
  ELSE IF products[prod].project_id # proj THEN "invalid"
  ELSE IF LicenseExpired(from_days(products[prod].license_exp_days, activated_at))
    THEN "invalid"
  ELSE "valid"

\* The response of a validate call that runs without interruption in the
\* current state.
validate_license_response(j, proj) ==
  IF ValidateLookupVerdict(j) = "invalid" THEN "invalid"
  ELSE LET dv == CHOOSE r \in DeviceByJti(j) : TRUE
       IN  ValidateFinishVerdict(licenses[dv.license_id].product_id, proj,
                                 dv.activated_at)

validate_license_lookup(p, j, proj) ==
  /\ pc[p] = "idle"
  /\ IF ValidateLookupVerdict(j) = "invalid"
       THEN /\ loc' = [loc EXCEPT ![p] =
                         [NoLoc EXCEPT !.op = "validate", !.jti = j, !.proj = proj,
                            !.after = (j \in deactivated), !.res = "invalid"]]
            /\ Goto(p, "done")
       ELSE LET dv == CHOOSE r \in DeviceByJti(j) : TRUE
            IN  /\ loc' = [loc EXCEPT ![p] =
                             [NoLoc EXCEPT !.op = "validate", !.jti = j,
                                !.proj = proj, !.row = dv.id, !.lic = dv.license_id,
                                !.at = dv.activated_at,
                                !.prod = licenses[dv.license_id].product_id,
                                !.after = (j \in deactivated)]]
                /\ Goto(p, "val_product")
  /\ UNCHANGED <<now, ticks, nextUid, products, licenses, devices, sessions,
                 codes, wlock, created, deactivated, issued,
                 acodes, events, renewed, auth, audit,
                 api_keys, projects, soft, email, operators>>

\* update_device_last_seen runs before the per-device expiry check
validate_license_finish(p) ==
  /\ pc[p] = "val_product"
  /\ LET v == ValidateFinishVerdict(loc[p].prod, loc[p].proj, loc[p].at)
         written == loc[p].prod \in DOMAIN products
                    /\ products[loc[p].prod].project_id = loc[p].proj
     IN  /\ written => WriteLockFree
         /\ devices' = IF written THEN update_device_last_seen(loc[p].row) ELSE devices
         /\ Return(p, v)
  /\ UNCHANGED <<now, ticks, nextUid, products, licenses, sessions, codes,
                 wlock, created, deactivated, issued,
                 acodes, events, renewed, auth, audit,
                 api_keys, projects, soft, email, operators>>

\* ------------------------------------------------- org handlers on licenses
\* revoke_license: can_write_project, lookups, already-revoked check, write
revoke_license(p, l, proj, canWrite) ==
  /\ pc[p] = "idle"
  /\ LET ok == /\ canWrite
               /\ audit.pool
               /\ l \in DOMAIN licenses
               /\ ProductOf(l) \in DOMAIN products
               /\ products[ProductOf(l)].project_id = proj
               /\ ~licenses[l].revoked
         result == IF ~canWrite THEN "Forbidden"
                   ELSE IF ~audit.pool THEN "Internal"
                   ELSE IF l \notin DOMAIN licenses THEN "NotFound"
                   ELSE IF ProductOf(l) \notin DOMAIN products THEN "NotFound"
                   ELSE IF products[ProductOf(l)].project_id # proj THEN "NotFound"
                   ELSE IF licenses[l].revoked THEN "BadRequest"
                   ELSE "revoked"
     IN  /\ ok => WriteLockFree
         /\ licenses' = IF ok THEN [licenses EXCEPT ![l].revoked = TRUE] ELSE licenses
         /\ audit' = IF ok THEN audit_log("revoke_license", ToString(l))
                      ELSE audit
         /\ loc' = [loc EXCEPT ![p] = [NoLoc EXCEPT !.op = "revoke", !.lic = l,
                                         !.proj = proj, !.res = result]]
         /\ Goto(p, "done")
  /\ UNCHANGED <<now, ticks, nextUid, products, devices, sessions, codes,
                 wlock, created, deactivated, issued,
                 acodes, events, renewed, auth,
                 api_keys, projects, soft, email, operators>>

\* Rows that go with a deleted product (products -> licenses -> devices)
LicensesOfProduct(prod) == {l \in DOMAIN licenses : licenses[l].product_id = prod}

CascadedLicenses(prod) ==
  [l \in DOMAIN licenses \ LicensesOfProduct(prod) |-> licenses[l]]

CascadedDevices(prod) ==
  {r \in devices : r.license_id \notin LicensesOfProduct(prod)}

\* delete_product: can_write_project, lookup, DELETE FROM products
delete_product(p, prod, proj, canWrite) ==
  /\ pc[p] = "idle"
  /\ LET ok == /\ canWrite
               /\ audit.pool
               /\ prod \in DOMAIN products
               /\ products[prod].project_id = proj
         result == IF ~canWrite THEN "Forbidden"
                   ELSE IF ~audit.pool THEN "Internal"
                   ELSE IF prod \notin DOMAIN products THEN "NotFound"
                   ELSE IF products[prod].project_id # proj THEN "NotFound"
                   ELSE "deleted"
     IN  /\ ok => WriteLockFree
         /\ products' = IF ok THEN [x \in DOMAIN products \ {prod} |-> products[x]]
                        ELSE products
         /\ licenses' = IF ok THEN CascadedLicenses(prod) ELSE licenses
         /\ devices' = IF ok THEN CascadedDevices(prod) ELSE devices
         /\ audit' = IF ok THEN audit_log("delete_product", prod) ELSE audit
         /\ loc' = [loc EXCEPT ![p] = [NoLoc EXCEPT !.op = "delete_product",
                                         !.prod = prod, !.proj = proj,
                                         !.res = result]]
         /\ Goto(p, "done")
  /\ UNCHANGED <<now, ticks, nextUid, sessions, codes, wlock, created,
                 deactivated, issued,
                 acodes, events, renewed, auth,
                 api_keys, projects, soft, email, operators>>

\* update_product: can_write_project, lookup, project match, then the
\* UpdateBuilder writes the fields the request gives (Null: field absent)
UpdatedProducts(prod, dl, al) ==
  [products EXCEPT
     ![prod].device_limit = IF dl = Null THEN @ ELSE dl,
     ![prod].activation_limit = IF al = Null THEN @ ELSE al]

update_product(p, prod, proj, canWrite, dl, al) ==
  /\ pc[p] = "idle"
  /\ LET ok == /\ canWrite
               /\ audit.pool
               /\ prod \in DOMAIN products
               /\ products[prod].project_id = proj
         result == IF ~canWrite THEN "Forbidden"
                   ELSE IF ~audit.pool THEN "Internal"
                   ELSE IF prod \notin DOMAIN products THEN "NotFound"
                   ELSE IF products[prod].project_id # proj THEN "NotFound"
                   ELSE "updated"
     IN  /\ ok => WriteLockFree
         /\ products' = IF ok THEN UpdatedProducts(prod, dl, al) ELSE products
         /\ audit' = IF ok THEN audit_log("update_product", prod) ELSE audit
         /\ loc' = [loc EXCEPT ![p] = [NoLoc EXCEPT !.op = "update_product",
                                         !.prod = prod, !.proj = proj,
                                         !.dlimit = dl,
                                         !.alimit = al, !.res = result]]
         /\ Goto(p, "done")
  /\ UNCHANGED <<now, ticks, nextUid, licenses, devices, sessions, codes,
                 wlock, created, deactivated, issued,
                 acodes, events, renewed, auth,
                 api_keys, projects, soft, email, operators>>

\* ------------------------ checkout-completed webhooks (Stripe, LemonSqueezy)
\* handle_checkout_completed and handle_order_created run the same statements;
\* opname tells them apart.  Project and provider configuration lookup,
\* signature check, paid check, session lookup with the completed test,
\* product lookup and the expirations from now.
CheckoutVerdictUnverified(s, projOk, sigOk, paid) ==
  IF ~projOk THEN "ProjectNotFound"
  ELSE IF ~paid THEN "NotPaid"
  ELSE IF s \notin DOMAIN sessions THEN "SessionNotFound"
  ELSE IF sessions[s].completed THEN "AlreadyProcessed"
  ELSE IF sessions[s].product_id \notin DOMAIN products THEN "ProductNotFound"
  ELSE "continue"

CheckoutVerdict(s, projOk, sigOk, paid) ==
  IF ~projOk THEN "ProjectNotFound"
  ELSE IF ~sigOk THEN "Unauthorized"
  ELSE IF ~paid THEN "NotPaid"
  ELSE IF s \notin DOMAIN sessions THEN "SessionNotFound"
  ELSE IF sessions[s].completed THEN "AlreadyProcessed"
  ELSE IF sessions[s].product_id \notin DOMAIN products THEN "ProductNotFound"
  ELSE "continue"

\* what verify_webhook_signature answered, if the handler got to call it
SignatureOutcome(projOk, sigOk) ==
  IF ~projOk THEN "none" ELSE IF sigOk THEN "ok" ELSE "failed"

CheckoutLookup(p, opname, s, projOk, sigOk, paid) ==
  /\ pc[p] = "idle"
  /\ nextUid <= MaxUid
  /\ nextUid' = nextUid + 1
  /\ LET result == CheckoutVerdict(s, projOk, sigOk, paid)
     IN  IF result # "continue"
           THEN /\ loc' = [loc EXCEPT ![p] =
                             [NoLoc EXCEPT !.op = opname, !.sess = s,
                                !.sig = SignatureOutcome(projOk, sigOk),
                                !.res = result]]
                /\ Goto(p, "done")
           ELSE /\ loc' = [loc EXCEPT ![p] =
                             [NoLoc EXCEPT !.op = opname, !.sess = s,
                                !.sig = SignatureOutcome(projOk, sigOk),
                                !.prod = sessions[s].product_id,
                                !.dev = sessions[s].device_id,
                                !.proj = IF opname = "stripe_checkout"
                                           THEN "stripe" ELSE "lemonsqueezy",
                                !.at = from_days(
                                   products[sessions[s].product_id].license_exp_days, now),
                                !.newlic = nextUid, !.jti = nextUid]]
                /\ Goto(p, "wh_license")
  /\ UNCHANGED <<now, ticks, products, licenses, devices, sessions, codes,
                 wlock, created, deactivated, issued,
                 acodes, events, renewed, auth, audit,
                 api_keys, projects, soft, email, operators>>

handle_checkout_completed(p, s, projOk, sigOk, paid) ==
  CheckoutLookup(p, "stripe_checkout", s, projOk, sigOk, paid)

handle_order_created(p, s, projOk, sigOk, paid) ==
  CheckoutLookup(p, "ls_order", s, projOk, sigOk, paid)

\* create_license_key: a new license row for the session's product
checkout_create_license(p) ==
  /\ pc[p] = "wh_license"
  /\ WriteLockFree
  /\ licenses' = licenses @@
       (loc[p].newlic :> [product_id |-> loc[p].prod, activation_count |-> 0,
                          revoked |-> FALSE, revoked_jtis |-> <<>>,
                          expires_at |-> loc[p].at,
                          payment_provider |-> loc[p].proj,
                          payment_provider_subscription_id |-> "none"])
  /\ issued' = [issued EXCEPT ![loc[p].sess] = @ \cup {loc[p].newlic}]
  /\ Goto(p, "wh_device")
  /\ UNCHANGED <<now, ticks, nextUid, products, devices, sessions, codes,
                 wlock, loc, created, deactivated,
                 acodes, events, renewed, auth, audit,
                 api_keys, projects, soft, email, operators>>

\* create_device for the session's device under the new license
checkout_create_device(p) ==
  /\ pc[p] = "wh_device"
  /\ WriteLockFree
  /\ IF UniqueDeviceIndex(loc[p].newlic, loc[p].dev)
       THEN /\ devices' = create_device(loc[p].jti, loc[p].newlic, loc[p].dev, loc[p].jti)
            /\ created' = [created EXCEPT ![loc[p].newlic] = @ + 1]
            /\ Goto(p, "wh_incr")
            /\ UNCHANGED loc
       ELSE /\ Return(p, "Internal")
            /\ UNCHANGED <<devices, created>>
  /\ UNCHANGED <<now, ticks, nextUid, products, licenses, sessions, codes,
                 wlock, deactivated, issued,
                 acodes, events, renewed, auth, audit,
                 api_keys, projects, soft, email, operators>>

\* increment_activation_count
checkout_increment(p) ==
  /\ pc[p] = "wh_incr"
  /\ WriteLockFree
  /\ licenses' = increment_activation_count(loc[p].newlic)
  /\ Goto(p, "wh_mark")
  /\ UNCHANGED <<now, ticks, nextUid, products, devices, sessions, codes,
                 wlock, loc, created, deactivated, issued,
                 acodes, events, renewed, auth, audit,
                 api_keys, projects, soft, email, operators>>

\* mark_payment_session_completed(conn, session_id): the call passes the
\* session id alone
mark_payment_session_completed(s) ==
  IF s \in DOMAIN sessions
    THEN [sessions EXCEPT ![s].completed = TRUE]
    ELSE sessions

checkout_mark_completed(p) ==
  /\ pc[p] = "wh_mark"
  /\ WriteLockFree
  /\ sessions' = mark_payment_session_completed(loc[p].sess)
  /\ Return(p, "OK")
  /\ UNCHANGED <<now, ticks, nextUid, products, licenses, devices, codes,
                 wlock, created, deactivated, issued,
                 acodes, events, renewed, auth, audit,
                 api_keys, projects, soft, email, operators>>

\* --------------------------------------------- payment_callback (GET /callback)
\* state.success_page_url
success_page_url == "success_page"

\* session.redirect_url.as_ref().unwrap_or(&state.success_page_url)
default_redirect(s) == success_page_url

base_redirect(s) ==
  IF sessions[s].redirect_url # "none" THEN sessions[s].redirect_url
  ELSE success_page_url

\* the names append_query_params is given in the three redirects
PendingParams == {"session", "status"}

SuccessPageParams == {"license_key", "code", "project_id", "status"}

\* the third-party redirect with the license key added
ThirdPartyParamsWithKey == {"license_key", "code", "project_id", "status"}

ThirdPartyParams == {"code", "project_id", "status"}

payment_callback(p, s) ==
  /\ pc[p] = "idle"
  /\ LET result ==
           IF s \notin DOMAIN sessions THEN "NotFound"
           ELSE IF ~sessions[s].completed THEN "RedirectPending"
           ELSE IF sessions[s].product_id \notin DOMAIN products THEN "Internal"
           ELSE IF sessions[s].license_id = Null THEN "Internal"
           ELSE IF sessions[s].license_id \notin DOMAIN licenses THEN "Internal"
           ELSE "RedirectSuccess"
     IN  /\ result = "RedirectSuccess" => (nextUid <= MaxUid /\ WriteLockFree)
         /\ codes' = IF result = "RedirectSuccess"
                       THEN codes \cup {[id |-> nextUid,
                                         license_id |-> sessions[s].license_id]}
                       ELSE codes
         /\ nextUid' = IF result = "RedirectSuccess" THEN nextUid + 1 ELSE nextUid
         /\ loc' = [loc EXCEPT ![p] =
              [NoLoc EXCEPT
                 !.op = "callback", !.sess = s, !.res = result,
                 !.url = IF result \in {"RedirectPending", "RedirectSuccess"}
                           THEN base_redirect(s) ELSE "none",
                 !.query = IF result = "RedirectPending" THEN PendingParams
                           ELSE IF result # "RedirectSuccess" THEN {}
                           ELSE IF sessions[s].redirect_url # "none"
                             THEN ThirdPartyParams
                           ELSE SuccessPageParams]]
         /\ Goto(p, "done")
  /\ UNCHANGED <<now, ticks, products, licenses, devices, sessions, wlock,
                 created, deactivated, issued,
                 acodes, events, renewed, auth, audit,
                 api_keys, projects, soft, email, operators>>

\* ------------------------------------------------------ initiate_buy (POST /buy)
RedirectUrls == {"https://a.example", "https://b.example"}
NewSessionIds == {"s2"}

any_redirect_allowed(proj, redirect) == TRUE

\* the two tests on project.allowed_redirect_urls
redirect_allowed(proj, redirect) ==
  /\ projects[proj].allowed_redirect_urls # {}
  /\ redirect \in projects[proj].allowed_redirect_urls

\* create_payment_session.  buy.rs hands the validated URL in and
\* callback.rs reads one from the row, while the INSERT of queries.rs names
\* no such column: the row keeps the URL (keeps) or holds none.
create_payment_session(id, product_id, redirect_url, keeps) ==
  sessions @@ (id :> [product_id |-> product_id, completed |-> FALSE,
                      license_id |-> Null, device_id |-> Null,
                      redirect_url |-> IF keeps THEN redirect_url
                                       ELSE "none"])

\* providerOk: a payment provider could be determined; checkoutOk: the
\* provider's checkout was created
initiate_buy(p, prod, redirect, keeps, providerOk, checkoutOk) ==
  /\ pc[p] = "idle"
  /\ LET id == IF NewSessionIds \subseteq DOMAIN sessions THEN "none"
               ELSE CHOOSE x \in NewSessionIds : x \notin DOMAIN sessions
         result ==
           IF prod \notin DOMAIN products THEN "NotFound"
           ELSE IF redirect # "none"
                   /\ ~redirect_allowed(products[prod].project_id, redirect)
             THEN "BadRequest"
           ELSE IF ~providerOk THEN "BadRequest"
           ELSE IF checkoutOk THEN "OK" ELSE "CheckoutFailed"
         creates == result \in {"OK", "CheckoutFailed"}
     IN  /\ creates => (id # "none" /\ WriteLockFree)
         /\ sessions' = IF creates
                          THEN create_payment_session(id, prod, redirect, keeps)
                          ELSE sessions
         /\ loc' = [loc EXCEPT ![p] =
                      [NoLoc EXCEPT !.op = "buy", !.prod = prod,
                         !.url = redirect,
                         !.sess = IF result = "OK" THEN id ELSE "none",
                         !.res = result]]
         /\ Goto(p, "done")
  /\ UNCHANGED <<now, ticks, nextUid, products, licenses, devices, codes,
                 wlock, created, deactivated, issued, acodes, events,
                 renewed, auth, audit, api_keys, projects, soft, email, operators>>

\* ------------------------------------------------------- activation codes
ActivationCodeById(id) == {c \in acodes : c.id = id}

\* create_activation_code: INSERT with expires_at = now + TTL, used = 0.
\* The code string is as fresh as the row id and is identified with it.
create_activation_code(p, l) ==
  /\ pc[p] = "idle"
  /\ nextUid <= MaxUid
  /\ WriteLockFree
  /\ acodes' = acodes \cup
       {[id |-> nextUid, license_id |-> l,
         expires_at |-> now + ACTIVATION_CODE_TTL_SECONDS, used |-> FALSE]}
  /\ nextUid' = nextUid + 1
  /\ loc' = [loc EXCEPT ![p] = [NoLoc EXCEPT !.op = "create_code", !.lic = l,
                                  !.row = nextUid, !.res = "created"]]
  /\ Goto(p, "done")
  /\ UNCHANGED <<now, ticks, products, licenses, devices, sessions, codes,
                 wlock, created, deactivated, issued, events, renewed, auth, audit,
                 api_keys, projects, soft, email, operators>>

\* I6: redeemable iff used = false AND expires_at > now
Redeemable(c) == ~c.used /\ c.expires_at > now

\* UPDATE activation_codes SET used = 1 WHERE id = ?1
mark_activation_code_used(id) ==
  {IF c.id = id THEN [c EXCEPT !.used = TRUE] ELSE c : c \in acodes}

\* redemption by code, first statement: get_activation_code_by_code and the
\* redeemable test on the row read
redeem_code_lookup(p, code) ==
  /\ pc[p] = "idle"
  /\ LET found == ActivationCodeById(code)
         result == IF found = {} THEN "NotFound"
                   ELSE IF ~Redeemable(CHOOSE c \in found : TRUE) THEN "Rejected"
                   ELSE "continue"
     IN  IF result # "continue"
           THEN /\ loc' = [loc EXCEPT ![p] = [NoLoc EXCEPT !.op = "redeem_code",
                                                !.row = code, !.res = result]]
                /\ Goto(p, "done")
           ELSE /\ loc' = [loc EXCEPT ![p] =
                             [NoLoc EXCEPT !.op = "redeem_code", !.row = code,
                                !.lic = (CHOOSE c \in found : TRUE).license_id]]
                /\ Goto(p, "code_mark")
  /\ UNCHANGED <<now, ticks, nextUid, products, licenses, devices, sessions,
                 codes, wlock, created, deactivated, issued, acodes, events,
                 renewed, auth, audit,
                 api_keys, projects, soft, email, operators>>

\* redemption by code, second statement: mark_activation_code_used
redeem_code_mark(p) ==
  /\ pc[p] = "code_mark"
  /\ WriteLockFree
  /\ acodes' = mark_activation_code_used(loc[p].row)
  /\ Return(p, "ok")
  /\ UNCHANGED <<now, ticks, nextUid, products, licenses, devices, sessions,
                 codes, wlock, created, deactivated, issued, events, renewed,
                 auth, audit,
                 api_keys, projects, soft, email, operators>>

\* ------------------------------------------------ webhook event recording
EventRows(provider, event_id) ==
  {e \in events : e.provider = provider /\ e.event_id = event_id}

EventIndexBroken(provider, event_id) == TRUE

\* the (provider, event_id) uniqueness that makes INSERT OR IGNORE ignore
UniqueEventIndex(provider, event_id) == EventRows(provider, event_id) = {}

\* try_record_webhook_event: gen_id, INSERT OR IGNORE, affected > 0
try_record_webhook_event(p, provider, event_id) ==
  /\ pc[p] = "idle"
  /\ nextUid <= MaxUid
  /\ WriteLockFree
  /\ nextUid' = nextUid + 1
  /\ LET inserted == UniqueEventIndex(provider, event_id)
     IN  /\ events' = IF inserted
                        THEN events \cup {[id |-> nextUid, provider |-> provider,
                                           event_id |-> event_id]}
                        ELSE events
         /\ loc' = [loc EXCEPT ![p] =
                      [NoLoc EXCEPT !.op = "record_event", !.row = nextUid,
                         !.proj = provider, !.sess = event_id,
                         !.res = IF inserted THEN "true" ELSE "false"]]
  /\ Goto(p, "done")
  /\ UNCHANGED <<now, ticks, products, licenses, devices, sessions, codes,
                 wlock, created, deactivated, issued, acodes, renewed, auth, audit,
                 api_keys, projects, soft, email, operators>>

\* ------------------------------------------- subscription renewal webhooks
\* get_license_key_by_subscription(conn, provider, subscription_id)
LicenseBySubscription(provider, sub) ==
  {l \in DOMAIN licenses :
     /\ licenses[l].payment_provider = provider
     /\ licenses[l].payment_provider_subscription_id = sub}

\* a renewal that also clears the revoked flag
extend_and_reinstate(l, new_expires_at) ==
  IF l \in DOMAIN licenses
    THEN [licenses EXCEPT ![l].expires_at = new_expires_at,
                          ![l].revoked = FALSE]
    ELSE licenses

\* UPDATE licenses SET expires_at = ?1, updates_expires_at = ?2 WHERE id = ?3
extend_license_expiration(l, new_expires_at) ==
  IF l \in DOMAIN licenses
    THEN [licenses EXCEPT ![l].expires_at = new_expires_at]
    ELSE licenses

\* handle_invoice_paid and handle_subscription_payment up to the write:
\* license by subscription, product, signature, paid status, and the new
\* expiration computed from now.  The event id of the delivery is not read
\* by either handler; it is carried along for the history only.
RenewalLookup(p, opname, provider, event_id, sub, sigOk, paid) ==
  /\ pc[p] = "idle"
  /\ LET found == LicenseBySubscription(provider, sub)
         l == CHOOSE x \in found : TRUE
         result == IF found = {} THEN "LicenseNotFound"
                   ELSE IF ProductOf(l) \notin DOMAIN products THEN "ProductNotFound"
                   ELSE IF ~sigOk THEN "Unauthorized"
                   ELSE IF ~paid THEN "NotPaid"
                   ELSE "continue"
     IN  IF result # "continue"
           THEN /\ loc' = [loc EXCEPT ![p] = [NoLoc EXCEPT !.op = opname,
                                                !.sess = event_id, !.res = result]]
                /\ Goto(p, "done")
           ELSE /\ loc' = [loc EXCEPT ![p] =
                             [NoLoc EXCEPT !.op = opname, !.sess = event_id,
                                !.lic = l,
                                !.after = (renewed[event_id] # {}),
                                !.at = from_days(products[ProductOf(l)].license_exp_days,
                                                 now)]]
                /\ Goto(p, "renew_extend")
  /\ UNCHANGED <<now, ticks, nextUid, products, licenses, devices, sessions,
                 codes, wlock, created, deactivated, issued, acodes, events,
                 renewed, auth, audit,
                 api_keys, projects, soft, email, operators>>

handle_invoice_paid(p, event_id, sub, sigOk, paid) ==
  RenewalLookup(p, "stripe_invoice_paid", "stripe", event_id, sub, sigOk, paid)

handle_subscription_payment(p, event_id, sub, sigOk, paid) ==
  RenewalLookup(p, "ls_subscription_payment", "lemonsqueezy", event_id, sub,
                sigOk, paid)

\* extend_license_expiration and the 200 OK
renewal_extend(p) ==
  /\ pc[p] = "renew_extend"
  /\ WriteLockFree
  /\ licenses' = extend_license_expiration(loc[p].lic, loc[p].at)
  /\ renewed' = IF renewed[loc[p].sess] = {}
                  THEN [renewed EXCEPT ![loc[p].sess] = {loc[p].at}]
                  ELSE renewed
  /\ Return(p, "OK")
  /\ UNCHANGED <<now, ticks, nextUid, products, devices, sessions, codes,
                 wlock, created, deactivated, issued, acodes, events, auth, audit,
                 api_keys, projects, soft, email, operators>>

\* ------------------------------------------------------------------ clock
Tick(d) ==
  /\ ticks < MaxTicks
  /\ now' = now + d
  /\ ticks' = ticks + 1
  /\ UNCHANGED <<nextUid, products, licenses, devices, sessions, codes, wlock,
                 pc, loc, created, deactivated, issued,
                 acodes, events, renewed, auth, audit,
                 api_keys, projects, soft, email, operators>>

\* The response has been sent: the process is free for the next request.
Finish(p) ==
  /\ pc[p] = "done"
  /\ pc' = [pc EXCEPT ![p] = "idle"]
  /\ loc' = [loc EXCEPT ![p] = NoLoc]
  /\ UNCHANGED <<now, ticks, nextUid, products, licenses, devices, sessions,
                 codes, wlock, created, deactivated, issued,
                 acodes, events, renewed, auth, audit,
                 api_keys, projects, soft, email, operators>>

AcquireStep ==
  \E p \in Procs :
    \/ \E l \in DOMAIN licenses, d \in DeviceIds : acquire_device_atomic_begin(p, l, d)
    \/ acquire_device_atomic_check(p)
    \/ acquire_device_atomic_update(p)
    \/ acquire_device_atomic_insert(p)

DeactivateStepOn(D) ==
  \E p \in Procs :
    \/ \E l \in DOMAIN licenses, d \in D, proj \in Projects :
         deactivate_device(p, l, d, proj)
    \/ \E l \in DOMAIN licenses, d \in D, proj \in Projects,
          canWrite \in BOOLEAN :
         deactivate_device_admin(p, l, d, proj, canWrite)
    \/ add_revoked_jti_read(p)
    \/ add_revoked_jti_write(p)
    \/ deactivate_delete(p)

RedeemStepOn(D) ==
  \E p \in Procs :
    \/ \E l \in DOMAIN licenses \cup {Null}, d \in D, proj \in Projects :
         redeem_license_lookup(p, l, d, proj)
    \/ redeem_license_count(p)
    \/ redeem_license_check(p)
    \/ redeem_license_write(p)
    \/ redeem_license_increment(p)

RedeemStep == RedeemStepOn(DeviceIds)

DeactivateStep == DeactivateStepOn(DeviceIds)

ValidateStep ==
  \E p \in Procs :
    \/ \E j \in Uids, proj \in Projects : validate_license_lookup(p, j, proj)
    \/ validate_license_finish(p)

RevokeStep ==
  \E p \in Procs, l \in DOMAIN licenses, proj \in Projects, canWrite \in BOOLEAN :
    revoke_license(p, l, proj, canWrite)

DeleteProductStep ==
  \E p \in Procs, prod \in ProductIds, proj \in Projects, canWrite \in BOOLEAN :
    delete_product(p, prod, proj, canWrite)

\* The clock advances by arbitrary amounts; the amounts drawn land exactly on
\* and just past a one-day expiry.
UpdateProductStep ==
  \E p \in Procs, prod \in ProductIds, proj \in Projects, canWrite \in BOOLEAN,
     dl \in {Null} \cup (0..MaxDeviceLimit), al \in {Null} \cup (0..MaxActivationLimit) :
    update_product(p, prod, proj, canWrite, dl, al)

CodeStep ==
  \E p \in Procs :
    \/ \E l \in DOMAIN licenses : create_activation_code(p, l)
    \/ \E code \in Uids : redeem_code_lookup(p, code)
    \/ redeem_code_mark(p)

RecordEventStep ==
  \E p \in Procs, provider \in Providers, event_id \in EventIds :
    try_record_webhook_event(p, provider, event_id)

RenewalStepOn(E) ==
  \E p \in Procs :
    \/ \E e \in E, sub \in {"sub1", "sub2"}, sigOk \in BOOLEAN, paid \in BOOLEAN :
         handle_invoice_paid(p, e, sub, sigOk, paid)
    \/ \E e \in E, sub \in {"sub1", "sub2"}, sigOk \in BOOLEAN, paid \in BOOLEAN :
         handle_subscription_payment(p, e, sub, sigOk, paid)
    \/ renewal_extend(p)

RenewalStep == RenewalStepOn(EventIds)

CheckoutStep ==
  \E p \in Procs :
    \/ \E s \in SessionIds \cup {"none"}, projOk \in BOOLEAN, sigOk \in BOOLEAN,
          paid \in BOOLEAN :
         handle_checkout_completed(p, s, projOk, sigOk, paid)
    \/ \E s \in SessionIds \cup {"none"}, projOk \in BOOLEAN, sigOk \in BOOLEAN,
          paid \in BOOLEAN :
         handle_order_created(p, s, projOk, sigOk, paid)
    \/ checkout_create_license(p)
    \/ checkout_create_device(p)
    \/ checkout_increment(p)
    \/ checkout_mark_completed(p)

CallbackStep == \E p \in Procs, s \in SessionIds \cup {"none"} : payment_callback(p, s)

TickStep == \E d \in {SECONDS_PER_DAY, SECONDS_PER_DAY + 1} : Tick(d)

FinishStep == \E p \in Procs : Finish(p)

NextEngine == AcquireStep \/ DeactivateStep \/ FinishStep

SpecEngine == InitLimits /\ [][NextEngine]_vars

NextRedeem == RedeemStep \/ DeactivateStep \/ FinishStep

SpecRedeem == InitLimits /\ [][NextRedeem]_vars

NextDevice == AcquireStep \/ RedeemStep \/ DeactivateStep \/ ValidateStep \/ FinishStep

SpecDevice == InitLimits /\ [][NextDevice]_vars

NextValidate ==
  \/ RedeemStepOn({1}) \/ DeactivateStepOn({1}) \/ ValidateStep \/ RevokeStep
  \/ DeleteProductStep \/ TickStep \/ FinishStep

SpecValidate == InitExpiry /\ [][NextValidate]_vars

NextLimits == AcquireStep \/ DeactivateStep \/ UpdateProductStep \/ FinishStep

SpecLimits == InitLimits /\ [][NextLimits]_vars

NextCodes == CodeStep \/ TickStep \/ FinishStep

SpecCodes == InitLimits /\ [][NextCodes]_vars

NextEvents == RecordEventStep \/ FinishStep

SpecEvents == InitLimits /\ [][NextEvents]_vars

\* deliveries of one renewal event, again and again, as time passes
NextRenew == RenewalStepOn({"evt1"}) \/ TickStep \/ FinishStep

SpecRenew == InitExpiry /\ [][NextRenew]_vars

\* ------------------------------------------- get_license_info (GET /license)
\* revoked, then expires_at < now, else active
LicenseStatus(l) ==
  IF licenses[l].revoked THEN "revoked"
  ELSE IF licenses[l].expires_at # Null /\ licenses[l].expires_at < now
    THEN "expired"
  ELSE "active"

get_license_info(p, l, proj) ==
  /\ pc[p] = "idle"
  /\ LET result ==
           IF l \notin DOMAIN licenses THEN "NotFound"
           ELSE IF ProductOf(l) \notin DOMAIN products THEN "Internal"
           ELSE IF products[ProductOf(l)].project_id # proj THEN "NotFound"
           ELSE LicenseStatus(l)
     IN  loc' = [loc EXCEPT ![p] =
                   [NoLoc EXCEPT !.op = "license_info", !.lic = l,
                      !.proj = proj, !.res = result,
                      !.count = IF result \in {"revoked", "expired", "active"}
                                  THEN count_devices_for_license(l)
                                  ELSE Null]]
  /\ Goto(p, "done")
  /\ UNCHANGED <<now, ticks, nextUid, products, licenses, devices, sessions,
                 codes, wlock, created, deactivated, issued, acodes, events,
                 renewed, auth, audit, api_keys, projects, soft, email, operators>>

\* get_license_by_email_hash: WHERE project_id = ?1 AND email_hash = ?2 AND
\* revoked = 0 AND (expires_at IS NULL OR expires_at > unixepoch()); l is the
\* license the email hash belongs to
EmailHashMatches(l, proj) ==
  /\ l \in DOMAIN licenses
  /\ ProductOf(l) \in DOMAIN products
  /\ products[ProductOf(l)].project_id = proj
  /\ ~licenses[l].revoked
  /\ licenses[l].expires_at = Null \/ licenses[l].expires_at > now

get_license_by_email_hash(p, proj, l) ==
  /\ pc[p] = "idle"
  /\ loc' = [loc EXCEPT ![p] =
               [NoLoc EXCEPT !.op = "license_by_email_hash", !.lic = l,
                  !.proj = proj,
                  !.res = IF EmailHashMatches(l, proj) THEN "Some" ELSE "None"]]
  /\ Goto(p, "done")
  /\ UNCHANGED <<now, ticks, nextUid, products, licenses, devices, sessions,
                 codes, wlock, created, deactivated, issued, acodes, events,
                 renewed, auth, audit, api_keys, projects, soft, email, operators>>

LicenseInfoStep ==
  \E p \in Procs, l \in DOMAIN licenses \cup {Null}, proj \in Projects :
    get_license_info(p, l, proj)

EmailHashStep ==
  \E p \in Procs, l \in DOMAIN licenses \cup {Null}, proj \in Projects :
    get_license_by_email_hash(p, proj, l)

NextUsable ==
  \/ RedeemStepOn({1}) \/ ValidateStep \/ LicenseInfoStep \/ EmailHashStep
  \/ RevokeStep \/ TickStep \/ FinishStep

SpecUsable == InitExpiry /\ [][NextUsable]_vars

\* ------------------------------------------------- soft delete and restore
\* UPDATE t SET deleted_at = ?1, deleted_cascade_depth = 0
\* WHERE id = ?2 AND deleted_at IS NULL
soft_delete_entity(rows, id, t) ==
  IF rows[id].deleted_at = Null
    THEN [rows EXCEPT ![id] = [deleted_at |-> t, deleted_cascade_depth |-> 0,
                               by |-> id]]
    ELSE rows

\* UPDATE child SET deleted_at = ?1, deleted_cascade_depth = ?2
\* WHERE fk = ?3 AND deleted_at IS NULL
cascade_delete_direct(rows, child_table, fk_column, parent_id, deleted_at, depth) ==
  [c \in DOMAIN rows |->
     IF /\ Table(c) = child_table
        /\ Fk(c, fk_column) = parent_id
        /\ rows[c].deleted_at = Null
       THEN [deleted_at |-> deleted_at, deleted_cascade_depth |-> depth,
             by |-> parent_id]
       ELSE rows[c]]

\* cascade_depth.unwrap_or(0) > 0 && !force is refused
check_restore_allowed(cascade_depth, force) ==
  ~((IF cascade_depth = Null THEN 0 ELSE cascade_depth) > 0 /\ ~force)

\* UPDATE child SET deleted_at = NULL, deleted_cascade_depth = NULL
\* WHERE fk = ?1 AND deleted_at = ?2 AND deleted_cascade_depth > 0
restore_cascaded_direct(rows, child_table, fk_column, parent_id, deleted_at) ==
  [c \in DOMAIN rows |->
     IF /\ Table(c) = child_table
        /\ Fk(c, fk_column) = parent_id
        /\ rows[c].deleted_at = deleted_at
        /\ rows[c].deleted_cascade_depth # Null
        /\ rows[c].deleted_cascade_depth > 0
       THEN Live
       ELSE rows[c]]

\* UPDATE t SET deleted_at = NULL, deleted_cascade_depth = NULL WHERE id = ?1
restore_entity(rows, id) == [rows EXCEPT ![id] = Live]

\* the child tables of a table in the cascade tree, each with the foreign key
\* that names the parent and its depth below the parent
Cascades(table) ==
  IF table = "projects"
    THEN <<[child_table |-> "products", fk_column |-> "project_id", depth |-> 1],
           [child_table |-> "licenses", fk_column |-> "project_id", depth |-> 2]>>
  ELSE IF table = "products"
    THEN <<[child_table |-> "licenses", fk_column |-> "product_id", depth |-> 1]>>
  ELSE <<>>

RECURSIVE cascade_delete_all(_, _, _, _)
cascade_delete_all(rows, cs, parent_id, deleted_at) ==
  IF cs = <<>> THEN rows
  ELSE cascade_delete_all(
         cascade_delete_direct(rows, Head(cs).child_table, Head(cs).fk_column,
                               parent_id, deleted_at, Head(cs).depth),
         Tail(cs), parent_id, deleted_at)

RECURSIVE restore_cascaded_all(_, _, _, _)
restore_cascaded_all(rows, cs, parent_id, deleted_at) ==
  IF cs = <<>> THEN rows
  ELSE restore_cascaded_all(
         restore_cascaded_direct(rows, Head(cs).child_table, Head(cs).fk_column,
                                 parent_id, deleted_at),
         Tail(cs), parent_id, deleted_at)

\* a direct delete: the row itself with depth 0, then its children with the
\* same deleted_at
soft_delete(p, id) ==
  /\ pc[p] = "idle"
  /\ WriteLockFree
  /\ LET deleted == soft[id].deleted_at = Null
     IN  /\ soft' = IF deleted
                      THEN cascade_delete_all(soft_delete_entity(soft, id, now),
                                              Cascades(Table(id)), id, now)
                      ELSE soft
         /\ loc' = [loc EXCEPT ![p] =
                      [NoLoc EXCEPT !.op = "soft_delete", !.sess = id,
                         !.res = IF deleted THEN "deleted" ELSE "NotFound"]]
  /\ Goto(p, "done")
  /\ UNCHANGED <<now, ticks, nextUid, products, licenses, devices, sessions,
                 codes, wlock, created, deactivated, issued, acodes, events,
                 renewed, auth, audit, api_keys, projects, email, operators>>

\* a restore: refused for a cascaded row without force; the children that
\* carry the row's deleted_at, then the row itself
restore(p, id, force) ==
  /\ pc[p] = "idle"
  /\ WriteLockFree
  /\ LET result ==
           IF soft[id].deleted_at = Null THEN "NotFound"
           ELSE IF ~check_restore_allowed(soft[id].deleted_cascade_depth, force)
             THEN "BadRequest"
           ELSE "restored"
     IN  /\ soft' = IF result = "restored"
                      THEN restore_entity(
                             restore_cascaded_all(soft, Cascades(Table(id)), id,
                                                  soft[id].deleted_at),
                             id)
                      ELSE soft
         /\ loc' = [loc EXCEPT ![p] =
                      [NoLoc EXCEPT !.op = "restore", !.sess = id,
                         !.res = result]]
  /\ Goto(p, "done")
  /\ UNCHANGED <<now, ticks, nextUid, products, licenses, devices, sessions,
                 codes, wlock, created, deactivated, issued, acodes, events,
                 renewed, auth, audit, api_keys, projects, email, operators>>

SoftDeleteStep ==
  \E p \in Procs, id \in SoftIds :
    \/ soft_delete(p, id)
    \/ \E force \in BOOLEAN : restore(p, id, force)

NextSoft == SoftDeleteStep \/ TickStep \/ FinishStep

SpecSoft == InitWith({0}, {0}, {Null}) /\ [][NextSoft]_vars

\* ------------------------------------------ EmailService: activation codes
RESEND_API_URL == "https://api.resend.com/emails"

\* self.system_api_key before config.org_resend_key
system_key_first(e) ==
  IF e.system_api_key # "none" THEN e.system_api_key ELSE e.org_resend_key

\* config.org_resend_key.or(self.system_api_key.as_deref())
resolve_api_key(e) ==
  IF e.org_resend_key # "none" THEN e.org_resend_key ELSE e.system_api_key

\* The resolution shared by send_activation_code and
\* send_multi_license_activation_codes.  sent: the HTTP request got a
\* response; success: the response status is a success.
deliver(p, opname, sent, success) ==
  /\ pc[p] = "idle"
  /\ LET target ==
           IF ~email.email_enabled THEN "none"
           ELSE IF email.email_webhook_url # "none" THEN email.email_webhook_url
           ELSE IF resolve_api_key(email) = "none" THEN "none"
           ELSE RESEND_API_URL
         result ==
           IF ~email.email_enabled THEN "Disabled"
           ELSE IF email.email_webhook_url # "none"
             THEN IF sent THEN "WebhookCalled" ELSE "Internal"
           ELSE IF resolve_api_key(email) = "none" THEN "NoApiKey"
           ELSE IF sent /\ success THEN "Sent" ELSE "Internal"
     IN  /\ email' = IF target = "none" THEN email
                     ELSE [email EXCEPT !.outbound = @ \cup
                             {[op |-> opname, url |-> target,
                               bearer |-> IF target = RESEND_API_URL
                                            THEN resolve_api_key(email)
                                            ELSE "none"]}]
         /\ loc' = [loc EXCEPT ![p] =
                      [NoLoc EXCEPT !.op = opname, !.url = target,
                         !.res = result]]
  /\ Goto(p, "done")
  /\ UNCHANGED <<now, ticks, nextUid, products, licenses, devices, sessions,
                 codes, wlock, created, deactivated, issued, acodes, events,
                 renewed, auth, audit, api_keys, projects, soft, operators>>

email_send_activation_code(p, sent, success) ==
  deliver(p, "send_activation_code", sent, success)

send_multi_license_activation_codes(p, sent, success) ==
  deliver(p, "send_multi_license_activation_codes", sent, success)

EmailStep ==
  \E p \in Procs, sent \in BOOLEAN, success \in BOOLEAN :
    \/ email_send_activation_code(p, sent, success)
    \/ send_multi_license_activation_codes(p, sent, success)

\* every combination of the project's email settings and the two keys
InitEmail ==
  /\ InitTables({0}, {0}, {Null}, {})
  /\ operators = SeedOperators
  /\ sessions = [s \in SessionIds |-> OpenSession]
  /\ projects = [x \in Projects |-> [allowed_redirect_urls |-> {}]]
  /\ auth = NoAuth
  /\ audit = AuditOk
  /\ email \in [email_enabled : BOOLEAN,
                email_webhook_url : {"none", "https://hook.example"},
                org_resend_key : {"none", "org_key"},
                system_api_key : {"none", "system_key"},
                outbound : {{}}]

NextEmail == EmailStep \/ FinishStep

SpecEmail == InitEmail /\ [][NextEmail]_vars

\* ------------------------------------------------ try_claim_payment_session
\* the UPDATE without its test of completed
ClaimableIgnoringCompleted(s) == s \in DOMAIN sessions

\* WHERE id = ?1 AND completed = 0
Claimable(s) == s \in DOMAIN sessions /\ ~sessions[s].completed

\* UPDATE payment_sessions SET completed = 1 WHERE id = ?1 AND completed = 0;
\* affected > 0
try_claim_payment_session(p, s) ==
  /\ pc[p] = "idle"
  /\ WriteLockFree
  /\ sessions' = IF Claimable(s) THEN [sessions EXCEPT ![s].completed = TRUE]
                 ELSE sessions
  /\ loc' = [loc EXCEPT ![p] =
               [NoLoc EXCEPT !.op = "try_claim", !.sess = s,
                  !.res = IF Claimable(s) THEN "true" ELSE "false"]]
  /\ Goto(p, "done")
  /\ UNCHANGED <<now, ticks, nextUid, products, licenses, devices, codes,
                 wlock, created, deactivated, issued, acodes, events,
                 renewed, auth, audit, api_keys, projects, soft, email, operators>>

ClaimStep ==
  \E p \in Procs, s \in SessionIds \cup {"none"} :
    try_claim_payment_session(p, s)

NextClaim == ClaimStep \/ CheckoutStep \/ CallbackStep \/ FinishStep

SpecClaim == InitExpiry /\ [][NextClaim]_vars

\* acquisitions alone, as time passes
NextAcquire == AcquireStep \/ TickStep \/ FinishStep

SpecAcquire == InitLimits /\ [][NextAcquire]_vars

\* ------------------------------------------------ operator management
\* PUT and DELETE /operators/{id} behind require_owner_role.  The middleware
\* reads the caller's operator row and hands it to the handler, which runs
\* afterwards on a connection of its own.
IsOwner(role) == role = "owner"

\* caller: the operator row of the bearer token's user; input_role: the
\* role of the request body, "none" where the body has none
require_owner_role(p, opname, caller, id, input_role) ==
  /\ pc[p] = "idle"
  /\ loc' = [loc EXCEPT ![p] =
                [NoLoc EXCEPT !.op = opname, !.proj = caller, !.prod = id,
                              !.sig = input_role,
                              !.res = IF operators[caller] = "none" THEN "401"
                                      ELSE IF ~IsOwner(operators[caller])
                                        THEN "403"
                                      ELSE "none"]]
  /\ Goto(p, IF operators[caller] # "none" /\ IsOwner(operators[caller])
               THEN "operator_handler" ELSE "done")
  /\ UNCHANGED <<now, ticks, nextUid, products, licenses, devices, sessions,
                 codes, wlock, created, deactivated, issued, acodes, events,
                 renewed, auth, audit, api_keys, projects, soft, email, operators>>

\* queries::update_operator: set_opt("role", input.role)
set_operator_role(id, input_role) ==
  IF input_role = "none" THEN operators
  ELSE [operators EXCEPT ![id] = input_role]

\* DELETE FROM operators WHERE id = ?1
delete_operator_row(id) == [operators EXCEPT ![id] = "none"]

update_operator(p) ==
  /\ pc[p] = "operator_handler"
  /\ loc[p].op = "update_operator"
  /\ WriteLockFree
  /\ IF ~audit.pool
       THEN Return(p, "Internal") /\ UNCHANGED <<operators, audit>>
       ELSE IF loc[p].prod = loc[p].proj /\ loc[p].sig # "none"
         THEN Return(p, "BadRequest") /\ UNCHANGED <<operators, audit>>
       ELSE IF operators[loc[p].prod] = "none"
         THEN Return(p, "NotFound") /\ UNCHANGED <<operators, audit>>
       ELSE /\ operators' = set_operator_role(loc[p].prod, loc[p].sig)
            /\ audit' = audit_log("update_operator", loc[p].prod)
            /\ Return(p, IF create_audit_log_fails THEN "Internal" ELSE "ok")
  /\ UNCHANGED <<now, ticks, nextUid, products, licenses, devices, sessions,
                 codes, wlock, created, deactivated, issued, acodes, events,
                 renewed, auth, api_keys, projects, soft, email>>

delete_operator(p) ==
  /\ pc[p] = "operator_handler"
  /\ loc[p].op = "delete_operator"
  /\ WriteLockFree
  /\ IF ~audit.pool
       THEN Return(p, "Internal") /\ UNCHANGED <<operators, audit>>
       ELSE IF loc[p].prod = loc[p].proj
         THEN Return(p, "BadRequest") /\ UNCHANGED <<operators, audit>>
       ELSE IF operators[loc[p].prod] = "none"
         THEN Return(p, "NotFound") /\ UNCHANGED <<operators, audit>>
       ELSE /\ operators' = delete_operator_row(loc[p].prod)
            /\ audit' = audit_log("delete_operator", loc[p].prod)
            /\ Return(p, IF create_audit_log_fails THEN "Internal" ELSE "deleted")
  /\ UNCHANGED <<now, ticks, nextUid, products, licenses, devices, sessions,
                 codes, wlock, created, deactivated, issued, acodes, events,
                 renewed, auth, api_keys, projects, soft, email>>

OperatorStep ==
  \E p \in Procs :
    \/ \E caller \in OperatorIds, id \in OperatorIds,
          input_role \in OperatorRoles \cup {"none"} :
         require_owner_role(p, "update_operator", caller, id, input_role)
    \/ \E caller \in OperatorIds, id \in OperatorIds :
         require_owner_role(p, "delete_operator", caller, id, "none")
    \/ update_operator(p)
    \/ delete_operator(p)

\* any operators table with an owner in it
InitOperators ==
  /\ InitTables({0}, {0}, {Null}, {})
  /\ sessions = [s \in SessionIds |-> OpenSession]
  /\ projects = [x \in Projects |-> [allowed_redirect_urls |-> {}]]
  /\ email = NoEmail
  /\ auth = NoAuth
  /\ audit = AuditOk
  /\ operators \in [OperatorIds -> OperatorRoles \cup {"none"}]
  /\ \E o \in OperatorIds : operators[o] = "owner"

NextOperators == OperatorStep \/ FinishStep

SpecOperators == InitOperators /\ [][NextOperators]_vars

\* a license's life: redemptions, validations, deactivations, renewals and
\* revocation, as time passes
NextRevoke ==
  \/ RedeemStepOn({1}) \/ DeactivateStepOn({1}) \/ ValidateStep \/ RevokeStep
  \/ RenewalStepOn({"evt1"}) \/ TickStep \/ FinishStep

SpecRevoke == InitExpiry /\ [][NextRevoke]_vars

BuyStep ==
  \E p \in Procs, prod \in ProductIds \cup {"none"},
     redirect \in RedirectUrls \cup {"none"}, keeps \in BOOLEAN,
     providerOk \in BOOLEAN, checkoutOk \in BOOLEAN :
    initiate_buy(p, prod, redirect, keeps, providerOk, checkoutOk)

BuyCallbackStep ==
  \E p \in Procs, s \in SessionIds \cup NewSessionIds \cup {"none"} :
    payment_callback(p, s)

\* a session the webhook has completed: try_claim_payment_session and
\* set_payment_session_license
CompletedSession(redirect) ==
  [OpenSession EXCEPT !.completed = TRUE, !.license_id = SeedLicense,
                      !.redirect_url = redirect]

\* the allowlist of the product's project, and the first session as an earlier buy
\* and the provider's webhook can have left it
InitBuy ==
  /\ InitTables({0}, {0}, {Null}, {})
  /\ operators = SeedOperators
  /\ auth = NoAuth
  /\ audit = AuditOk
  /\ \E allowed \in SUBSET RedirectUrls :
       projects = [x \in Projects |->
                     [allowed_redirect_urls |->
                        IF x = "prj1" THEN allowed ELSE {}]]
  /\ email = NoEmail
  /\ \E redirect \in {"none"} \cup projects["prj1"].allowed_redirect_urls :
       \/ sessions = [s \in SessionIds |->
                        [OpenSession EXCEPT !.redirect_url = redirect]]
       \/ sessions = [s \in SessionIds |-> CompletedSession(redirect)]
       \/ sessions = [s \in SessionIds |->
                        [OpenSession EXCEPT !.completed = TRUE,
                                            !.redirect_url = redirect]]

NextBuy == BuyStep \/ BuyCallbackStep \/ FinishStep

SpecBuy == InitBuy /\ [][NextBuy]_vars

NextPay == CheckoutStep \/ CallbackStep \/ FinishStep

SpecPay == InitExpiry /\ [][NextPay]_vars

Next ==
  \/ AcquireStep \/ RedeemStep \/ DeactivateStep \/ ValidateStep \/ RevokeStep
  \/ DeleteProductStep \/ UpdateProductStep \/ CheckoutStep \/ CallbackStep
  \/ CodeStep \/ RecordEventStep \/ RenewalStep \/ TickStep \/ FinishStep

Spec == Init /\ [][Next]_vars

\* ------------------------------------------- org API authorization (C4)
\* One request to an /orgs/{org_id}/... URL.  The request and the rows its
\* lookups find are drawn when the request arrives; the middleware decides it
\* and, if admitted, the handler runs once.
Orgs == {"org1", "org2"}

OrgMemberRoles == {"owner", "admin", "member"}

\* api_key_scopes rows of the request's key: (org, project or null, access)
ScopeRows ==
  [org_id : {"org1"}, project_id : {"null"} \cup Projects,
   access : {"view", "admin"}]
    \cup [org_id : {"org2"}, project_id : {"null"}, access : {"view", "admin"}]

ScopeSets == {S \in SUBSET ScopeRows : Cardinality(S) <= MaxScopes}

\* what the X-On-Behalf-Of header holds and what
\* get_org_member_with_user_by_id finds for it
NoHeader == [header |-> "absent", found |-> FALSE, org_id |-> "none",
             role |-> "none"]

OnBehalfOf ==
  {NoHeader,
   [NoHeader EXCEPT !.header = "unreadable"],
   [NoHeader EXCEPT !.header = "readable"]}
    \cup [header : {"readable"}, found : {TRUE}, org_id : Orgs,
          role : {"owner", "member"}]

\* user: get_user_by_api_key found the key and its user
\* operator: role of get_operator_by_user_id, member: role of
\* get_org_member_with_user_by_user_and_org, project: org of get_project_by_id,
\* project_member: role of get_project_member for the resolved member
OrgRequests ==
  [kind : {"org"}, method : {"GET", "PUT"}, org_id : {"org1"},
   project_id : {"null"}, user : BOOLEAN, scopes : ScopeSets,
   on_behalf_of : OnBehalfOf, operator : {"none", "owner", "admin", "view"},
   member : {"none"} \cup OrgMemberRoles, project : {"none"},
   project_member : {"none"}]

ProjectRequests ==
  [kind : {"project"}, method : {"GET", "PUT"}, org_id : {"org1"},
   project_id : {"prj1"}, user : BOOLEAN, scopes : ScopeSets,
   on_behalf_of : OnBehalfOf, operator : {"none", "owner", "admin", "view"},
   member : {"none"} \cup OrgMemberRoles, project : {"none"} \cup Orgs,
   project_member : {"none", "admin", "view"}]

Received(r) ==
  [stage |-> "received", req |-> r, status |-> "none", role |-> "none",
   project_role |-> "none", impersonated |-> FALSE]

InitAuth ==
  /\ InitData({0}, {0}, {Null})
  /\ audit = AuditOk
  /\ \E r \in OrgRequests \cup ProjectRequests : auth = Received(r)

\* request.headers().get(ON_BEHALF_OF_HEADER).and_then(|v| v.to_str().ok())
HeaderValue(r) ==
  IF r.on_behalf_of.header = "readable" THEN "some" ELSE "none"

Reject(status) ==
  [status |-> status, role |-> "none", project_role |-> "none",
   impersonated |-> FALSE]

Admit(role, project_role, impersonated) ==
  [status |-> "ok", role |-> role, project_role |-> project_role,
   impersonated |-> impersonated]

try_operator_impersonation(r) ==
  IF HeaderValue(r) = "none" THEN "none"
  ELSE IF r.operator = "none" THEN "403"
  ELSE IF r.operator \notin {"owner", "admin"} THEN "403"
  ELSE IF ~r.on_behalf_of.found THEN "404"
  ELSE IF r.on_behalf_of.org_id # r.org_id THEN "403"
  ELSE "some"

api_key_has_scopes(scopes) == Cardinality(scopes) > 0

\* The access of the row query_one returns; where several rows match, any of
\* them may be the first.
get_api_key_access_level(scopes, org_id, project_id) ==
  LET exact == {s \in scopes : s.org_id = org_id /\ s.project_id = project_id}
      wide  == {s \in scopes : s.org_id = org_id /\ s.project_id = "null"}
      org   == {s \in scopes : s.org_id = org_id}
      rows  == IF project_id # "null"
                 THEN IF exact # {} THEN exact ELSE wide
                 ELSE org
  IN  IF rows = {} THEN {"none"} ELSE {s.access : s \in rows}

check_api_key_scope(scopes, org_id, project_id, required_access) ==
  {IF level = "admin" THEN TRUE
   ELSE IF level = "view" THEN required_access = "view"
   ELSE FALSE :
     level \in get_api_key_access_level(scopes, org_id, project_id)}

check_api_key_scope_for_org(scopes, org_id, require_admin) ==
  IF ~api_key_has_scopes(scopes) THEN {"ok"}
  ELSE LET required_access == IF require_admin THEN "admin" ELSE "view"
       IN  {IF granted THEN "ok" ELSE "403" :
              granted \in check_api_key_scope(scopes, org_id, "null",
                                              required_access)}

\* The part the two middlewares share: key, impersonation, scopes,
\* membership, operator override.
ResolveMember(r) ==
  IF ~r.user THEN {Reject("401")}
  ELSE LET imp == try_operator_impersonation(r)
       IN  IF imp \in {"403", "404"} THEN {Reject(imp)}
           ELSE IF imp = "some"
             THEN {Admit(r.on_behalf_of.role, "none", TRUE)}
           ELSE {IF scope # "ok" THEN Reject(scope)
                 ELSE IF r.member # "none" THEN Admit(r.member, "none", FALSE)
                 ELSE IF r.operator \in {"owner", "admin"}
                   THEN Admit("owner", "none", FALSE)
                 ELSE Reject("403") :
                   scope \in check_api_key_scope_for_org(r.scopes, r.org_id,
                                                         FALSE)}

AllRolesImplicit(role) == TRUE

has_implicit_project_access(role) == role \in {"owner", "admin"}

ProjectAccess(r, m) ==
  IF m.status # "ok" THEN m
  ELSE IF r.project = "none" THEN Reject("404")
  ELSE IF r.project # r.org_id THEN Reject("404")
  ELSE LET project_role == IF has_implicit_project_access(m.role)
                             THEN "none" ELSE r.project_member
       IN  IF ~has_implicit_project_access(m.role) /\ project_role = "none"
             THEN Reject("404")
             ELSE Admit(m.role, project_role, m.impersonated)

Decided(o) ==
  [auth EXCEPT !.stage = "decided", !.status = o.status, !.role = o.role,
               !.project_role = o.project_role,
               !.impersonated = o.impersonated]

org_member_auth ==
  /\ auth.stage = "received"
  /\ auth.req.kind = "org"
  /\ \E m \in ResolveMember(auth.req) : auth' = Decided(m)
  /\ UNCHANGED <<now, ticks, nextUid, products, licenses, devices, sessions,
                 codes, wlock, pc, loc, created, deactivated, issued, acodes,
                 events, renewed, audit,
                 api_keys, projects, soft, email, operators>>

org_member_project_auth ==
  /\ auth.stage = "received"
  /\ auth.req.kind = "project"
  /\ \E m \in ResolveMember(auth.req) :
       auth' = Decided(ProjectAccess(auth.req, m))
  /\ UNCHANGED <<now, ticks, nextUid, products, licenses, devices, sessions,
                 codes, wlock, pc, loc, created, deactivated, issued, acodes,
                 events, renewed, audit,
                 api_keys, projects, soft, email, operators>>

AnyProjectRoleWrites(ctx) ==
  ctx.role \in {"owner", "admin"} \/ ctx.project_role # "none"

can_write_project(ctx) ==
  ctx.role \in {"owner", "admin"} \/ ctx.project_role = "admin"

\* PUT /orgs/{org_id}/projects/{project_id}/products/{id} behind
\* org_member_project_auth: the handler of an admitted request, run once
OrgUpdateProductStep ==
  /\ auth.stage = "decided"
  /\ auth.status = "ok"
  /\ auth.req.kind = "project"
  /\ auth.req.method = "PUT"
  /\ \A q \in Procs : pc[q] = "idle"
  /\ \E p \in Procs, prod \in ProductIds, dl \in 0..MaxDeviceLimit :
       update_product(p, prod, auth.req.project_id, can_write_project(auth),
                      dl, Null)

\* check_api_key_scope on its own: the key's scope rows, the org and project
\* asked about and the access required are the request's
ScopeCheckRequests ==
  [kind : {"org"}, method : {"GET", "PUT"}, org_id : {"org1"},
   project_id : {"null"} \cup Projects, user : {TRUE}, scopes : ScopeSets,
   on_behalf_of : {NoHeader}, operator : {"none"}, member : {"none"},
   project : {"none"}, project_member : {"none"}]

InitScope ==
  /\ InitData({0}, {0}, {Null})
  /\ audit = AuditOk
  /\ \E r \in ScopeCheckRequests : auth = Received(r)

RequiredAccess(r) == IF r.method = "PUT" THEN "admin" ELSE "view"

ScopeCheckStep ==
  /\ auth.stage = "received"
  /\ \E granted \in check_api_key_scope(auth.req.scopes, auth.req.org_id,
                                         auth.req.project_id,
                                         RequiredAccess(auth.req)) :
       auth' = [auth EXCEPT !.stage = "scope_checked",
                            !.status = IF granted THEN "true" ELSE "false"]
  /\ UNCHANGED <<now, ticks, nextUid, products, licenses, devices, sessions,
                 codes, wlock, pc, loc, created, deactivated, issued, acodes,
                 events, renewed, audit,
                 api_keys, projects, soft, email, operators>>

NextScope == ScopeCheckStep

SpecScope == InitScope /\ [][NextScope]_vars

NextAuth == org_member_auth \/ org_member_project_auth \/ OrgUpdateProductStep

SpecAuth == InitAuth /\ [][NextAuth]_vars

\* ------------------------------------- org API: project handlers (C4/C5)
\* The handlers behind org_member_project_auth that the earlier sections do
\* not hold.  proj is the URL's project_id, canWrite is
\* ctx.can_write_project().
NewProductIds == {"prod2"}

\* POST .../products: can_write_project, the two pools, INSERT, audit
create_product(p, proj, canWrite, dl, al) ==
  /\ pc[p] = "idle"
  /\ LET ok == canWrite /\ audit.pool
         id == CHOOSE x \in NewProductIds : TRUE
         result == IF ~canWrite THEN "Forbidden"
                   ELSE IF ~audit.pool THEN "Internal"
                   ELSE "created"
     IN  /\ ok => (WriteLockFree /\ NewProductIds \cap DOMAIN products = {})
         /\ products' = IF ok
                          THEN products @@
                                 (id :> [project_id |-> proj,
                                         device_limit |-> dl,
                                         activation_limit |-> al,
                                         license_exp_days |-> Null])
                          ELSE products
         /\ audit' = IF ok THEN audit_log("create_product", id) ELSE audit
         /\ loc' = [loc EXCEPT ![p] = [NoLoc EXCEPT !.op = "create_product",
                                         !.proj = proj, !.dlimit = dl,
                                         !.alimit = al,
                                         !.prod = IF ok THEN id ELSE "none",
                                         !.res = result]]
         /\ Goto(p, "done")
  /\ UNCHANGED <<now, ticks, nextUid, licenses, devices, sessions, codes,
                 wlock, created, deactivated, issued, acodes, events, renewed,
                 auth,
                 api_keys, projects, soft, email, operators>>

\* POST .../licenses up to the loop: permission, count, pools, product of
\* this project, expirations from the product's days
create_license(p, prod, proj, canWrite, count) ==
  /\ pc[p] = "idle"
  /\ LET result == IF ~canWrite THEN "Forbidden"
                   ELSE IF count < 1 \/ count > 100 THEN "BadRequest"
                   ELSE IF ~audit.pool THEN "Internal"
                   ELSE IF prod \notin DOMAIN products THEN "NotFound"
                   ELSE IF products[prod].project_id # proj THEN "NotFound"
                   ELSE "continue"
     IN  IF result # "continue"
           THEN /\ loc' = [loc EXCEPT ![p] =
                             [NoLoc EXCEPT !.op = "create_license",
                                !.prod = prod, !.proj = proj, !.res = result]]
                /\ Goto(p, "done")
           ELSE /\ loc' = [loc EXCEPT ![p] =
                             [NoLoc EXCEPT !.op = "create_license",
                                !.prod = prod, !.proj = proj, !.act = count,
                                !.count = count,
                                !.at = from_days(products[prod].license_exp_days,
                                                 now)]]
                /\ Goto(p, "cl_insert")
  /\ UNCHANGED <<now, ticks, nextUid, products, licenses, devices, sessions,
                 codes, wlock, created, deactivated, issued, acodes, events,
                 renewed, auth, audit,
                 api_keys, projects, soft, email, operators>>

\* queries::create_license for one iteration of the loop
create_license_insert(p) ==
  /\ pc[p] = "cl_insert"
  /\ nextUid <= MaxUid
  /\ WriteLockFree
  /\ licenses' = licenses @@
       (nextUid :> [product_id |-> loc[p].prod, activation_count |-> 0,
                    revoked |-> FALSE, revoked_jtis |-> <<>>,
                    expires_at |-> loc[p].at,
                    payment_provider |-> "none",
                    payment_provider_subscription_id |-> "none"])
  /\ nextUid' = nextUid + 1
  /\ loc' = [loc EXCEPT ![p].newlic = nextUid]
  /\ Goto(p, IF loc[p].act = 1 THEN "cl_code" ELSE "cl_audit")
  /\ UNCHANGED <<now, ticks, products, devices, sessions, codes, wlock,
                 created, deactivated, issued, acodes, events, renewed, auth,
                 audit,
                 api_keys, projects, soft, email, operators>>

\* queries::create_activation_code when body.count == 1
create_license_code(p) ==
  /\ pc[p] = "cl_code"
  /\ nextUid <= MaxUid
  /\ WriteLockFree
  /\ acodes' = acodes \cup
       {[id |-> nextUid, license_id |-> loc[p].newlic,
         expires_at |-> now + ACTIVATION_CODE_TTL_SECONDS, used |-> FALSE]}
  /\ nextUid' = nextUid + 1
  /\ Goto(p, "cl_audit")
  /\ UNCHANGED <<now, ticks, products, licenses, devices, sessions, codes,
                 wlock, loc, created, deactivated, issued, events, renewed,
                 auth, audit,
                 api_keys, projects, soft, email, operators>>

\* the iteration's audit_log, then the next iteration or the response
create_license_audit(p) ==
  /\ pc[p] = "cl_audit"
  /\ audit' = audit_log("create_license", ToString(loc[p].newlic))
  /\ IF loc[p].count > 1
       THEN /\ loc' = [loc EXCEPT ![p].count = @ - 1]
            /\ Goto(p, "cl_insert")
       ELSE /\ pc' = [pc EXCEPT ![p] = "done"]
            /\ loc' = [loc EXCEPT ![p].count = 0, ![p].res = "created"]
  /\ UNCHANGED <<now, ticks, nextUid, products, licenses, devices, sessions,
                 codes, wlock, created, deactivated, issued, acodes, events,
                 renewed, auth,
                 api_keys, projects, soft, email, operators>>

ProjectNeverMismatches(prod, proj) == FALSE

\* product.project_id != path.project_id
ProjectMismatch(prod, proj) == products[prod].project_id # proj

\* GET .../licenses/{license_id}: the license and its devices, if its
\* product is of this project
get_license(p, l, proj) ==
  /\ pc[p] = "idle"
  /\ LET result == IF l \notin DOMAIN licenses THEN "NotFound"
                   ELSE IF ProductOf(l) \notin DOMAIN products THEN "NotFound"
                   ELSE IF ProjectMismatch(ProductOf(l), proj)
                     THEN "NotFound"
                   ELSE "ok"
     IN  /\ loc' = [loc EXCEPT ![p] =
                      [NoLoc EXCEPT !.op = "get_license", !.proj = proj,
                         !.lic = l,
                         !.count = IF result = "ok"
                                     THEN count_devices_for_license(l)
                                     ELSE Null,
                         !.res = result]]
         /\ Goto(p, "done")
  /\ UNCHANGED <<now, ticks, nextUid, products, licenses, devices, sessions,
                 codes, wlock, created, deactivated, issued, acodes, events,
                 renewed, auth, audit,
                 api_keys, projects, soft, email, operators>>

\* POST .../licenses/{license_id}/send-code
send_activation_code(p, l, proj, canWrite) ==
  /\ pc[p] = "idle"
  /\ LET result == IF ~canWrite THEN "Forbidden"
                   ELSE IF ~audit.pool THEN "Internal"
                   ELSE IF l \notin DOMAIN licenses THEN "NotFound"
                   ELSE IF ProductOf(l) \notin DOMAIN products THEN "NotFound"
                   ELSE IF ProjectMismatch(ProductOf(l), proj)
                     THEN "NotFound"
                   ELSE IF licenses[l].revoked THEN "BadRequest"
                   ELSE "created"
         ok == result = "created"
     IN  /\ ok => (nextUid <= MaxUid /\ WriteLockFree)
         /\ acodes' = IF ok
                        THEN acodes \cup
                               {[id |-> nextUid, license_id |-> l,
                                 expires_at |-> now + ACTIVATION_CODE_TTL_SECONDS,
                                 used |-> FALSE]}
                        ELSE acodes
         /\ nextUid' = IF ok THEN nextUid + 1 ELSE nextUid
         /\ audit' = IF ok
                       THEN audit_log("generate_activation_code", ToString(l))
                       ELSE audit
         /\ loc' = [loc EXCEPT ![p] =
                      [NoLoc EXCEPT !.op = "send_code", !.lic = l,
                         !.proj = proj,
                         !.row = IF ok THEN nextUid ELSE Null,
                         !.res = result]]
         /\ Goto(p, "done")
  /\ UNCHANGED <<now, ticks, products, licenses, devices, sessions, codes,
                 wlock, created, deactivated, issued, events, renewed, auth,
                 api_keys, projects, soft, email, operators>>

\* The requests of the project routes: a valid unscoped key without
\* impersonation; PUT stands for the mutating methods.
OrgOpRequests ==
  [kind : {"project"}, method : {"GET", "PUT"}, org_id : {"org1"},
   project_id : Projects, user : {TRUE}, scopes : {{}},
   on_behalf_of : {NoHeader}, operator : {"none"},
   member : {"none"} \cup OrgMemberRoles, project : {"none"} \cup Orgs,
   project_member : {"none", "admin", "view"}]

\* a license with one activated device, any state of the audit database,
\* and a request arriving
InitOrg ==
  /\ InitStore({0}, {0}, {Null}, {SessionDeviceId})
  /\ audit \in AuditStates
  /\ \E r \in OrgOpRequests : auth = Received(r)

\* the request was admitted by org_member_project_auth and its handler has
\* not started
Admitted ==
  /\ auth.stage = "decided"
  /\ auth.status = "ok"
  /\ auth.req.kind = "project"
  /\ \A q \in Procs : pc[q] = "idle"

\* the route's handler starts, with the URL's project and the context the
\* middleware stored
OrgReadStep ==
  /\ Admitted
  /\ auth.req.method = "GET"
  /\ \E p \in Procs, l \in Uids : get_license(p, l, auth.req.project_id)

OrgWriteStep ==
  /\ Admitted
  /\ auth.req.method # "GET"
  /\ \E p \in Procs :
       LET proj == auth.req.project_id
           canWrite == can_write_project(auth)
       IN  \/ \E dl \in 0..MaxDeviceLimit :
                create_product(p, proj, canWrite, dl, 0)
           \/ \E prod \in ProductIds, dl \in 0..MaxDeviceLimit :
                update_product(p, prod, proj, canWrite, dl, Null)
           \/ \E prod \in ProductIds : delete_product(p, prod, proj, canWrite)
           \/ \E prod \in ProductIds, count \in 0..2 :
                create_license(p, prod, proj, canWrite, count)
           \/ \E l \in Uids : revoke_license(p, l, proj, canWrite)
           \/ \E l \in Uids : send_activation_code(p, l, proj, canWrite)
           \/ \E l \in Uids, d \in DeviceIds :
                deactivate_device_admin(p, l, d, proj, canWrite)

\* the later statements of the handlers that take more than one
OrgContinueStep ==
  \E p \in Procs :
    \/ create_license_insert(p)
    \/ create_license_code(p)
    \/ create_license_audit(p)
    \/ add_revoked_jti_read(p)
    \/ add_revoked_jti_write(p)
    \/ deactivate_delete(p)

NextOrg ==
  org_member_project_auth \/ OrgReadStep \/ OrgWriteStep \/ OrgContinueStep

SpecOrg == InitOrg /\ [][NextOrg]_vars

\* ---------------------------------------------------------------- API keys
\* A key is identified with its id: generate_api_key draws it at random and
\* key_hash is its hash.
ApiKeyIds == {"k1"}

KeyValidIgnoringRevocation(k) ==
  /\ k \in DOMAIN api_keys
  /\ api_keys[k].expires_at = Null \/ api_keys[k].expires_at > now

\* WHERE key_hash = ?1 AND revoked_at IS NULL
\*   AND (expires_at IS NULL OR expires_at > unixepoch())
KeyValid(k) ==
  /\ k \in DOMAIN api_keys
  /\ api_keys[k].revoked_at = Null
  /\ api_keys[k].expires_at = Null \/ api_keys[k].expires_at > now

\* create_api_key: INSERT with expires_at = now + days * 86400 or NULL,
\* revoked_at NULL
create_api_key(p, expires_in_days) ==
  /\ pc[p] = "idle"
  /\ ApiKeyIds \ DOMAIN api_keys # {}
  /\ WriteLockFree
  /\ LET k == CHOOSE x \in ApiKeyIds \ DOMAIN api_keys : TRUE
     IN  /\ api_keys' = api_keys @@
               (k :> [expires_at |-> IF expires_in_days = Null THEN Null
                                     ELSE now + expires_in_days * 86400,
                      revoked_at |-> Null, last_used_at |-> Null])
         /\ loc' = [loc EXCEPT ![p] = [NoLoc EXCEPT !.op = "create_api_key",
                                         !.sess = k, !.res = "created"]]
  /\ Goto(p, "done")
  /\ UNCHANGED <<now, ticks, nextUid, products, licenses, devices, sessions,
                 codes, wlock, created, deactivated, issued, acodes, events,
                 renewed, auth, audit, projects, soft, email, operators>>

\* revoke_api_key: UPDATE .. SET revoked_at = now WHERE id = ?2 AND
\* revoked_at IS NULL; affected > 0
revoke_api_key(p, k) ==
  /\ pc[p] = "idle"
  /\ WriteLockFree
  /\ LET hit == k \in DOMAIN api_keys /\ api_keys[k].revoked_at = Null
     IN  /\ api_keys' = IF hit THEN [api_keys EXCEPT ![k].revoked_at = now]
                          ELSE api_keys
         /\ loc' = [loc EXCEPT ![p] = [NoLoc EXCEPT !.op = "revoke_api_key",
                                         !.sess = k,
                                         !.res = IF hit THEN "true" ELSE "false"]]
  /\ Goto(p, "done")
  /\ UNCHANGED <<now, ticks, nextUid, products, licenses, devices, sessions,
                 codes, wlock, created, deactivated, issued, acodes, events,
                 renewed, auth, audit, projects, soft, email, operators>>

\* get_user_by_api_key: the key row, the touch of last_used_at, the user;
\* userFound is what get_user_by_id answers
get_user_by_api_key(p, k, userFound) ==
  /\ pc[p] = "idle"
  /\ LET found == KeyValid(k)
     IN  /\ found => WriteLockFree
         /\ api_keys' = IF found THEN [api_keys EXCEPT ![k].last_used_at = now]
                          ELSE api_keys
         /\ loc' = [loc EXCEPT ![p] =
                      [NoLoc EXCEPT !.op = "get_user_by_api_key", !.sess = k,
                         !.res = IF found /\ userFound THEN "Some" ELSE "None"]]
  /\ Goto(p, "done")
  /\ UNCHANGED <<now, ticks, nextUid, products, licenses, devices, sessions,
                 codes, wlock, created, deactivated, issued, acodes, events,
                 renewed, auth, audit, projects, soft, email, operators>>

ApiKeyStep ==
  \E p \in Procs :
    \/ \E days \in {Null, 1} : create_api_key(p, days)
    \/ \E k \in ApiKeyIds : revoke_api_key(p, k)
    \/ \E k \in ApiKeyIds, userFound \in BOOLEAN :
         get_user_by_api_key(p, k, userFound)

NextKeys == ApiKeyStep \/ TickStep \/ FinishStep

SpecKeys == InitExpiry /\ [][NextKeys]_vars

\* ================================================================ properties
DeviceLimitOf(l) == products[ProductOf(l)].device_limit

ActivationLimitOf(l) == products[ProductOf(l)].activation_limit

DoneWith(p, opname, result) ==
  pc[p] = "done" /\ loc[p].op = opname /\ loc[p].res = result

\* C1: for every license whose product has a positive device_limit, under any
\* interleaving of acquire_device_atomic calls, the number of Device rows of
\* the license never exceeds device_limit.
C1_DeviceLimitNeverExceeded ==
  \A l \in DOMAIN licenses :
    (ProductOf(l) \in DOMAIN products /\ DeviceLimitOf(l) > 0)
      => count_devices_for_license(l) <= DeviceLimitOf(l)

\* an acquisition was refused at a full license that another one had filled
C1_Witness ==
  \E p \in Procs, l \in DOMAIN licenses :
    /\ DoneWith(p, "acquire", "DeviceLimitReached")
    /\ loc[p].lic = l
    /\ DeviceFor(l, loc[p].dev) = {}
    /\ DeviceLimitOf(l) > 0
    /\ count_devices_for_license(l) = DeviceLimitOf(l)

\* C2: two concurrent redeem_license requests with distinct new device ids,
\* both having read device_limit - 1 devices: exactly one succeeds, the other
\* is rejected with DeviceLimitReached, and the license then has exactly
\* device_limit devices.
C2_ExactlyOneRedeemSucceeds ==
  \A p, q \in Procs :
    ( /\ p # q
      /\ pc[p] = "done" /\ pc[q] = "done"
      /\ loc[p].op = "redeem" /\ loc[q].op = "redeem"
      /\ loc[p].lic # Null /\ loc[p].lic = loc[q].lic
      /\ loc[p].dev # loc[q].dev
      /\ loc[p].row = Null /\ loc[q].row = Null
      /\ loc[p].dlimit > 0 /\ loc[q].dlimit = loc[p].dlimit
      /\ loc[p].count = loc[p].dlimit - 1 /\ loc[q].count = loc[p].count
      /\ ~ActivationLimitReached(loc[p].alimit, loc[p].act)
      /\ ~ActivationLimitReached(loc[q].alimit, loc[q].act) )
    => /\ {loc[p].res, loc[q].res} = {"ok", "DeviceLimitReached"}
       /\ count_devices_for_license(loc[p].lic) = loc[p].dlimit

\* C8: activation_count of every license equals the number of acquisitions
\* that created a new Device for it; re-acquiring an existing device and
\* deactivating a device leave it unchanged.
C8_ActivationCountIsCreations ==
  \A l \in DOMAIN licenses : licenses[l].activation_count = created[l]

\* a device was created, re-acquired and then deactivated, and the count of
\* the license still stands at one
C8_Witness ==
  \E p, q \in Procs, l \in DOMAIN licenses :
    /\ DoneWith(p, "acquire", "Existing") /\ loc[p].lic = l
    /\ DoneWith(q, "deactivate_admin", "deactivated") /\ loc[q].lic = l
    /\ count_devices_for_license(l) = 0
    /\ created[l] = 1
    /\ licenses[l].activation_count = 1

\* C9: with activation_limit = n > 0, at most n acquisitions on a license
\* ever create a new Device, whatever the interleaving of acquisitions and
\* deactivations.
C9_ActivationLimitBoundsCreations ==
  \A l \in DOMAIN licenses :
    (ProductOf(l) \in DOMAIN products /\ ActivationLimitOf(l) > 0)
      => created[l] <= ActivationLimitOf(l)

\* C3: for every payment session, under any number and interleaving of
\* checkout-completed webhook deliveries (Stripe or LemonSqueezy), at most one
\* License is ever created.
C3_AtMostOneLicensePerSession ==
  \A s \in SessionIds : Cardinality(issued[s]) <= 1

\* C4: every PaymentSession with completed = TRUE has a non-null license_id
\* that refers to an existing License.
C4_CompletedSessionHasLicense ==
  \A s \in DOMAIN sessions :
    sessions[s].completed =>
      /\ sessions[s].license_id # Null
      /\ sessions[s].license_id \in DOMAIN licenses

\* C5: once a deactivation (public or admin) has removed a Device, a validate
\* call presenting the jti that Device held is answered valid:false in every
\* later state, also after the device id has been redeemed again.
C5_DeactivatedJtiNeverValidates ==
  /\ \A j \in deactivated, proj \in Projects :
       validate_license_response(j, proj) = "invalid"
  /\ \A p \in Procs :
       (pc[p] = "done" /\ loc[p].op = "validate" /\ loc[p].after)
         => loc[p].res = "invalid"

\* a validate call for a deactivated jti was answered after the same device
\* id had been redeemed again under a new jti
C5_Witness ==
  \E p \in Procs, r \in devices :
    /\ DoneWith(p, "validate", "invalid")
    /\ loc[p].after
    /\ loc[p].jti \in deactivated
    /\ r.jti # loc[p].jti
    /\ r.jti \notin deactivated
    /\ validate_license_response(r.jti, "prj1") = "valid"

\* C6: validate answers valid:true for a jti exactly when a Device with that
\* jti exists, its License is not revoked and has expires_at null or greater
\* than now, and the jti is not in the License's revoked_jtis (stated for
\* requests that name the project of the license's product).
C6_ValidIffDeviceAndUsable ==
  \A j \in Uids :
    LET dvs == DeviceByJti(j)
        usable == /\ dvs # {}
                  /\ \E r \in dvs :
                       /\ r.license_id \in DOMAIN licenses
                       /\ ~licenses[r.license_id].revoked
                       /\ (licenses[r.license_id].expires_at = Null
                             \/ licenses[r.license_id].expires_at > now)
                       /\ ~SeqContains(licenses[r.license_id].revoked_jtis, j)
    IN  (validate_license_response(j, "prj1") = "valid") <=> usable

\* C7: every failing validate_license call gets the same response,
\* {valid:false, reason:null} with the same status.
C7_FailuresIndistinguishable ==
  \A p \in Procs :
    (pc[p] = "done" /\ loc[p].op = "validate")
      => loc[p].res \in {"valid", "invalid"}

\* C10: at most one Device row exists for each (license_id, device_id) pair.
C10_OneDevicePerLicenseAndDeviceId ==
  \A r1, r2 \in devices :
    (r1.license_id = r2.license_id /\ r1.device_id = r2.device_id) => r1 = r2

\* two requests raced to create the same (license, device): one row exists
\* and the loser's insert was refused
C10_Witness ==
  \E p, q \in Procs :
    /\ p # q
    /\ DoneWith(p, "redeem", "Internal")
    /\ loc[p].lic # Null /\ loc[p].row = Null
    /\ pc[q] = "done" /\ loc[q].op \in {"redeem", "acquire"}
    /\ loc[q].lic = loc[p].lic /\ loc[q].dev = loc[p].dev
    /\ Cardinality(DeviceFor(loc[p].lic, loc[p].dev)) = 1

\* C11: two concurrent redemptions of the same new (license_id, device_id),
\* with limits that allow the device, both succeed; exactly one Device row
\* results and activation_count rises by exactly one.
C11_SameDeviceBothSucceed ==
  \A p, q \in Procs :
    ( /\ p # q
      /\ pc[p] = "done" /\ pc[q] = "done"
      /\ loc[p].op = "redeem" /\ loc[q].op = "redeem"
      /\ loc[p].lic # Null /\ loc[p].lic = loc[q].lic
      /\ loc[p].dev = loc[q].dev
      /\ loc[p].row = Null /\ loc[q].row = Null
      /\ loc[p].count # Null /\ loc[q].count # Null
      /\ ~DeviceLimitReached(loc[p].dlimit, loc[p].count)
      /\ ~DeviceLimitReached(loc[q].dlimit, loc[q].count)
      /\ ~ActivationLimitReached(loc[p].alimit, loc[p].act)
      /\ ~ActivationLimitReached(loc[q].alimit, loc[q].act) )
    => /\ loc[p].res = "ok" /\ loc[q].res = "ok"
       /\ Cardinality(DeviceFor(loc[p].lic, loc[p].dev)) = 1
       /\ created[loc[p].lic] = loc[p].act + 1

\* C12: after any sequence of acquisitions, deactivations and product
\* updates (update_product may change device_limit), every license has at
\* most device_limit devices, unless the limit is 0.
C12_DeviceCountWithinCurrentLimit ==
  \A l \in DOMAIN licenses :
    (ProductOf(l) \in DOMAIN products /\ DeviceLimitOf(l) > 0)
      => count_devices_for_license(l) <= DeviceLimitOf(l)

C14_OneEventRowPerPair ==
  /\ \A e1, e2 \in events :
       (e1.provider = e2.provider /\ e1.event_id = e2.event_id) => e1 = e2
  /\ \A p \in Procs :
       (pc[p] = "done" /\ loc[p].op = "record_event")
         => /\ Cardinality(EventRows(loc[p].proj, loc[p].sess)) = 1
            /\ (loc[p].res = "true")
                 <=> (\E e \in EventRows(loc[p].proj, loc[p].sess) : e.id = loc[p].row)
  /\ \A p, q \in Procs :
       ( /\ p # q
         /\ DoneWith(p, "record_event", "true")
         /\ pc[q] = "done" /\ loc[q].op = "record_event"
         /\ loc[q].proj = loc[p].proj /\ loc[q].sess = loc[p].sess )
       => loc[q].res = "false"

\* a call was answered true and a later call with the same pair false, and
\* the pair has the one row the first call wrote
C14_Witness ==
  \E p, q \in Procs :
    /\ DoneWith(p, "record_event", "false")
    /\ DoneWith(q, "record_event", "true")
    /\ loc[p].sess = loc[q].sess
    /\ loc[p].proj = loc[q].proj
    /\ EventRows(loc[p].proj, loc[p].sess)
         = {[id |-> loc[q].row, provider |-> loc[q].proj, event_id |-> loc[q].sess]}

\* C15: a second delivery of the same subscription-renewal event is a no-op:
\* the license's expires_at stays what the first delivery made it.
C15_RepeatedRenewalIsNoOp ==
  \A e \in EventIds, l \in DOMAIN licenses :
    (renewed[e] # {} /\ licenses[l].payment_provider_subscription_id = "sub1")
      => licenses[l].expires_at \in renewed[e]

\* C16: a checkout-completed delivery whose provider signature does not
\* verify is answered 401 (Unauthorized) and its handling creates or changes
\* no row of any table.
CheckoutOps == {"stripe_checkout", "ls_order"}

Covers(s, r) ==
  /\ s.org_id = r.org_id
  /\ r.project_id # "null" => s.project_id \in {"null", r.project_id}

\* a request with a valid key and no usable X-On-Behalf-Of header, whose key
\* has scopes
ScopedPlainRequest(r) ==
  r.user /\ HeaderValue(r) = "none" /\ api_key_has_scopes(r.scopes)

\* C17: a non-impersonated request whose API key has scopes performs a
\* mutation only if a scope covering the URL grants admin: with covering
\* scopes that grant view only, no mutating request ends in an update.
C17_ScopedKeyMutatesOnlyWithAdminScope ==
  (/\ auth.stage = "decided"
   /\ ScopedPlainRequest(auth.req)
   /\ auth.req.method = "PUT"
   /\ \E p \in Procs : DoneWith(p, "update_product", "updated"))
  => \E s \in auth.req.scopes : Covers(s, auth.req) /\ s.access = "admin"

\* ---------------------------------------------------------------- C18
\* C18: a non-impersonated request to a project URL whose API key has scopes
\* is admitted only if some scope of the key has the URL's org_id and a
\* project_id that is null or the URL's project; a key whose scopes in that
\* org all name other projects is rejected.
C18_ProjectUrlNeedsCoveringScope ==
  (/\ auth.stage = "decided"
   /\ auth.req.kind = "project"
   /\ ScopedPlainRequest(auth.req)
   /\ auth.status = "ok")
  => \E s \in auth.req.scopes :
       /\ s.org_id = auth.req.org_id
       /\ s.project_id \in {"null", auth.req.project_id}

\* ---------------------------------------------------------------- C19
\* the caller may impersonate and the header's member is of the URL's org
ImpersonationAllowed(r) ==
  /\ r.operator \in {"owner", "admin"}
  /\ r.on_behalf_of.found
  /\ r.on_behalf_of.org_id = r.org_id

\* C19: a request that carries X-On-Behalf-Of is authorized as the target
\* OrgMember, with the caller as impersonator, only if the caller is an
\* Operator with role owner or admin and the target belongs to the URL's org;
\* in every other case the answer is 403 Forbidden, and the request is never
\* authorized through the caller's own membership or operator override.
C19_ImpersonationOrForbidden ==
  (/\ auth.stage = "decided"
   /\ auth.req.user
   /\ auth.req.on_behalf_of.header # "absent")
  => /\ auth.status = "ok" => (auth.impersonated
                                 /\ ImpersonationAllowed(auth.req))
     /\ ~ImpersonationAllowed(auth.req) => auth.status = "403"

\* ---------------------------------------------------------------- C20
\* the request's principal is established and its org role is member: the
\* impersonated target, or the caller's own membership under a key that is
\* unscoped or has a scope in the URL's org
PrincipalIsPlainMember(r) ==
  /\ r.user
  /\ \/ /\ HeaderValue(r) = "some"
        /\ ImpersonationAllowed(r)
        /\ r.on_behalf_of.role = "member"
     \/ /\ HeaderValue(r) = "none"
        /\ r.member = "member"
        /\ api_key_has_scopes(r.scopes)
             => \E s \in r.scopes : s.org_id = r.org_id

\* C20: on a project URL a principal whose org role is member and who has no
\* ProjectMember row for the project is answered 404, whether the project
\* exists in the URL's org, belongs to another org or does not exist, and
\* never 403.
C20_NoProjectRowIsNotFound ==
  (/\ auth.stage = "decided"
   /\ auth.req.kind = "project"
   /\ PrincipalIsPlainMember(auth.req)
   /\ auth.req.project_member = "none")
  => auth.status = "404"

C20_Witness ==
  /\ auth.stage = "decided"
  /\ auth.req.kind = "project"
  /\ PrincipalIsPlainMember(auth.req)
  /\ auth.req.project_member = "none"
  /\ auth.req.project = auth.req.org_id
  /\ auth.status = "404"

\* ---------------------------------------------------------------- C21
\* the mutating project operations, by the name their handler records
MutatingOps ==
  {"create_product", "update_product", "delete_product", "create_license",
   "revoke", "send_code", "deactivate_admin"}

\* org role owner or admin, or project role admin
MayWrite ==
  auth.role \in {"owner", "admin"} \/ auth.project_role = "admin"

\* C21: a mutating project operation takes effect only for a principal with
\* org role owner or admin or project role admin; for any other principal
\* every such operation answers Forbidden and no step changes the products,
\* licenses, devices, activation codes or audit log.
C21_OnlyWritersMutate ==
  [][(auth.stage = "decided" /\ ~MayWrite)
       => /\ UNCHANGED <<products, licenses, devices, acodes, codes, sessions,
                         audit,
                 api_keys, projects, soft, email, operators>>
          /\ \A p \in Procs :
               loc'[p].op \in MutatingOps => loc'[p].res = "Forbidden"]_vars

C21_Witness ==
  /\ auth.stage = "decided"
  /\ auth.status = "ok"
  /\ auth.role = "member"
  /\ auth.project_role = "view"
  /\ \E p \in Procs : /\ DoneWith(p, "revoke", "Forbidden")
                       /\ loc[p].lic \in DOMAIN licenses
                       /\ ~licenses[loc[p].lic].revoked

\* ---------------------------------------------------------------- C22
\* the key has been revoked or its expires_at has passed
KeyDead(k) ==
  /\ k \in DOMAIN api_keys
  /\ \/ api_keys[k].revoked_at # Null
     \/ api_keys[k].expires_at # Null /\ api_keys[k].expires_at <= now

\* C22: once an API key is revoked or its expires_at has passed, it stays so
\* after every step, and every get_user_by_api_key for it from then on
\* yields no principal.
C22_DeadKeyStaysDead ==
  [][\A k \in ApiKeyIds :
       KeyDead(k)
         => /\ KeyDead(k)'
            /\ \A p \in Procs :
                 (/\ pc[p] = "idle"
                  /\ loc'[p].op = "get_user_by_api_key"
                  /\ loc'[p].sess = k) => loc'[p].res = "None"]_vars

C22_Witness ==
  \E p \in Procs, k \in DOMAIN api_keys :
    /\ DoneWith(p, "get_user_by_api_key", "None")
    /\ loc[p].sess = k
    /\ api_keys[k].last_used_at # Null
    /\ api_keys[k].revoked_at # Null
    /\ api_keys[k].expires_at # Null
    /\ api_keys[k].expires_at > now

\* ---------------------------------------------------------------- C23
LicenseOps == {"get_license", "revoke", "send_code", "deactivate_admin"}

\* license l is not of the project the URL names
ForeignLicense(l) ==
  /\ l \in DOMAIN licenses
  /\ \/ ProductOf(l) \notin DOMAIN products
     \/ products[ProductOf(l)].project_id # auth.req.project_id

CodesOf(l) == {c \in acodes : c.license_id = l}

C24_AuditFailureDoesNotFailOperation ==
  \A p \in Procs :
    (/\ pc[p] = "done"
     /\ loc[p].op \in MutatingOps
     /\ ~audit.pool \/ create_audit_log_fails)
    => loc[p].res # "Internal"

\* the callback requests that were answered with a redirect
Redirected(p) ==
  /\ pc[p] = "done"
  /\ loc[p].op = "callback"
  /\ loc[p].res \in {"RedirectPending", "RedirectSuccess"}

\* C25: for every completed session whose redirect target is a third-party
\* redirect URL, the callback's redirect query holds only code, project_id and
\* status and never the license key; the license key appears only in
\* redirects to the default success page.
C25_ThirdPartyRedirectHasNoLicenseKey ==
  \A p \in Procs :
    Redirected(p) =>
      /\ (sessions[loc[p].sess].completed
          /\ sessions[loc[p].sess].redirect_url # "none")
           => /\ loc[p].url = sessions[loc[p].sess].redirect_url
              /\ loc[p].query = {"code", "project_id", "status"}
      /\ "license_key" \in loc[p].query => loc[p].url = success_page_url

C25_Witness ==
  \E p \in Procs :
    /\ Redirected(p)
    /\ sessions[loc[p].sess].completed
    /\ loc[p].url \in RedirectUrls
    /\ loc[p].query = {"code", "project_id", "status"}

\* C26: for an existing payment session that is not completed, callback
\* writes nothing (it mints no redemption code) and answers with a redirect
\* carrying status=pending, to the session's redirect URL when one is set and
\* to the default success page otherwise.
C26_PendingCallbackWritesNothing ==
  [][\A p \in Procs :
       (/\ pc[p] = "idle"
        /\ pc'[p] = "done"
        /\ loc'[p].op = "callback"
        /\ loc'[p].sess \in DOMAIN sessions
        /\ ~sessions[loc'[p].sess].completed)
       => /\ loc'[p].res = "RedirectPending"
          /\ "status" \in loc'[p].query
          /\ loc'[p].url =
               IF sessions[loc'[p].sess].redirect_url # "none"
                 THEN sessions[loc'[p].sess].redirect_url
                 ELSE success_page_url
          /\ UNCHANGED <<codes, nextUid, sessions, licenses, devices,
                         products, projects, acodes, events, api_keys,
                         audit, operators>>]_vars

C26_Witness ==
  \E p \in Procs :
    /\ Redirected(p)
    /\ loc[p].res = "RedirectPending"
    /\ ~sessions[loc[p].sess].completed
    /\ loc[p].url \in RedirectUrls
    /\ codes = {}

\* the redirect allowlist of the project a product belongs to
AllowlistOf(prod) == projects[products[prod].project_id].allowed_redirect_urls

\* C27: every redirect issued by callback goes to the default success page or
\* to a URL of the project's redirect allowlist, and a buy whose redirect is
\* not in the allowlist (an empty allowlist included) is rejected and creates
\* no payment session.
C27_RedirectsStayInAllowlist ==
  [][\A p \in Procs :
       (pc[p] = "idle" /\ pc'[p] = "done") =>
         /\ (loc'[p].op = "callback"
             /\ loc'[p].res \in {"RedirectPending", "RedirectSuccess"})
              => \/ loc'[p].url = success_page_url
                 \/ loc'[p].url \in AllowlistOf(sessions[loc'[p].sess].product_id)
         /\ (loc'[p].op = "buy"
             /\ loc'[p].prod \in DOMAIN products
             /\ loc'[p].url # "none"
             /\ loc'[p].url \notin AllowlistOf(loc'[p].prod))
              => /\ loc'[p].res = "BadRequest"
                 /\ sessions' = sessions]_vars

C27_Witness ==
  \E p, q \in Procs :
    /\ Redirected(p)
    /\ loc[p].sess \in NewSessionIds
    /\ loc[p].url \in RedirectUrls
    /\ pc[q] = "done"
    /\ loc[q].op = "buy"
    /\ loc[q].prod \in DOMAIN products
    /\ loc[q].url \in RedirectUrls \ AllowlistOf(loc[q].prod)
    /\ loc[q].res = "BadRequest"

\* I5: usable iff revoked = false and (expires_at is null or expires_at > now)
UsableRule(l) ==
  /\ l \in DOMAIN licenses
  /\ ~licenses[l].revoked
  /\ licenses[l].expires_at = Null \/ licenses[l].expires_at > now

\* C28: redeem, validate, license info and the lookup by email hash all treat
\* a license as usable exactly when it is not revoked and its expires_at is
\* null or greater than now; at now = expires_at none of them does.
C28_OneUsableRuleEverywhere ==
  [][\A p \in Procs :
       (pc[p] = "idle" /\ pc'[p] # "idle") =>
         /\ (loc'[p].op = "redeem" /\ pc'[p] # "done")
              => UsableRule(loc'[p].lic)
         /\ (loc'[p].op = "validate" /\ pc'[p] # "done")
              => UsableRule(loc'[p].lic)
         /\ (loc'[p].op = "license_info"
             /\ loc'[p].res \in {"active", "expired", "revoked"})
              => (loc'[p].res = "active" <=> UsableRule(loc'[p].lic))
         /\ (loc'[p].op = "license_by_email_hash"
             /\ UsableRule(loc'[p].lic) /\ loc'[p].proj = "prj1")
              => loc'[p].res = "Some"
         /\ (loc'[p].op = "license_by_email_hash"
             /\ loc'[p].res = "Some")
              => UsableRule(loc'[p].lic)]_vars

\* the rows a cascade from id can reach
ChildrenOf(id) ==
  {c \in SoftIds :
     \E i \in 1..Len(Cascades(Table(id))) :
       /\ Table(c) = Cascades(Table(id))[i].child_table
       /\ Fk(c, Cascades(Table(id))[i].fk_column) = id}

\* C29: restoring a directly deleted parent makes live again exactly the
\* children that this parent's deletion had cascade-deleted; a child that was
\* already deleted before it, directly or through another parent's cascade,
\* keeps its deleted_at and its depth.
C29_CascadeRestoreRoundTrip ==
  [][\A p \in Procs :
       (/\ pc[p] = "idle"
        /\ pc'[p] = "done"
        /\ loc'[p].op = "restore"
        /\ loc'[p].res = "restored"
        /\ soft[loc'[p].sess].deleted_cascade_depth = 0)
       => \A c \in ChildrenOf(loc'[p].sess) :
            IF soft[c].by = loc'[p].sess
              THEN soft'[c].deleted_at = Null
              ELSE /\ soft'[c].deleted_at = soft[c].deleted_at
                   /\ soft'[c].deleted_cascade_depth =
                        soft[c].deleted_cascade_depth]_vars

EmailOps == {"send_activation_code", "send_multi_license_activation_codes"}

\* C30: delivery is resolved in strict priority.  With email_enabled false
\* the result is Disabled and nothing is sent, whatever else is configured;
\* otherwise a configured webhook URL is the only target, whatever keys
\* exist; otherwise the org key is used before the system key; with no key
\* the result is NoApiKey and nothing is sent.
C30_DeliveryPriority ==
  /\ ~email.email_enabled => email.outbound = {}
  /\ (email.email_enabled /\ email.email_webhook_url # "none")
       => \A c \in email.outbound :
            c.url = email.email_webhook_url /\ c.bearer = "none"
  /\ (email.email_enabled /\ email.email_webhook_url = "none")
       => \A c \in email.outbound :
            /\ c.url = RESEND_API_URL
            /\ c.bearer # "none"
            /\ c.bearer = IF email.org_resend_key # "none"
                            THEN email.org_resend_key
                            ELSE email.system_api_key
  /\ \A p \in Procs :
       (pc[p] = "done" /\ loc[p].op \in EmailOps) =>
         IF ~email.email_enabled THEN loc[p].res = "Disabled"
         ELSE IF email.email_webhook_url # "none"
           THEN loc[p].res \in {"WebhookCalled", "Internal"}
         ELSE IF email.org_resend_key = "none" /\ email.system_api_key = "none"
           THEN loc[p].res = "NoApiKey" /\ email.outbound = {}
         ELSE loc[p].res \in {"Sent", "Internal"}

C30_Witness ==
  \E p, q \in Procs :
    /\ pc[p] = "done"
    /\ loc[p].op = "send_activation_code"
    /\ loc[p].res = "Sent"
    /\ pc[q] = "done"
    /\ loc[q].op = "send_multi_license_activation_codes"
    /\ email.org_resend_key # "none"
    /\ email.system_api_key # "none"
    /\ \A c \in email.outbound : c.bearer = email.org_resend_key

\* C31: no failure of the call to the developer's webhook, be it an error
\* status or a request that got no response, makes the send return an error:
\* whenever the webhook is the target the result is WebhookCalled.
C31_WebhookFailureIsNotAnError ==
  \A p \in Procs :
    (/\ pc[p] = "done"
     /\ loc[p].op \in EmailOps
     /\ email.email_enabled
     /\ email.email_webhook_url # "none")
    => loc[p].res = "WebhookCalled"

\* a try_claim_payment_session call has just returned in process p
Claimed(p) ==
  pc[p] = "idle" /\ pc'[p] = "done" /\ loc'[p].op = "try_claim"

OtherDevices(rows, id) == {r \in rows : r.id # id}

\* C33: an acquisition for a (license, device) whose Device exists returns
\* Existing whatever the limits are, also when both are reached; it replaces
\* the jti by the new one and sets last_seen_at, and changes neither the
\* number of devices, nor the device's activated_at, nor activation_count.
C33_ExistingDeviceIsReacquired ==
  [][\A p \in Procs :
       /\ (pc[p] = "acq_check" /\ pc'[p] # "acq_check"
           /\ DeviceFor(loc[p].lic, loc[p].dev) # {})
            => pc'[p] = "acq_update"
       /\ (pc[p] = "acq_update" /\ pc'[p] # "acq_update")
            => /\ pc'[p] = "done"
               /\ loc'[p].res = "Existing"
               /\ Cardinality(devices') = Cardinality(devices)
               /\ OtherDevices(devices', loc[p].row)
                    = OtherDevices(devices, loc[p].row)
               /\ \A r \in DeviceById(loc[p].row) :
                    \E n \in devices' :
                      /\ n.id = r.id
                      /\ n.license_id = r.license_id
                      /\ n.device_id = r.device_id
                      /\ n.activated_at = r.activated_at
                      /\ n.jti = loc[p].jti
                      /\ n.last_seen_at = now
               /\ licenses' = licenses
               /\ created' = created]_vars

\* a device created at time 0 on a license whose two limits are then reached
\* was acquired again a day later
C33_Witness ==
  \E p \in Procs, l \in DOMAIN licenses :
    /\ DoneWith(p, "acquire", "Existing")
    /\ loc[p].lic = l
    /\ DeviceLimitOf(l) > 0
    /\ count_devices_for_license(l) >= DeviceLimitOf(l)
    /\ ActivationLimitOf(l) > 0
    /\ licenses[l].activation_count >= ActivationLimitOf(l)
    /\ \E r \in DeviceFor(l, loc[p].dev) :
         r.jti = loc[p].jti /\ r.activated_at = 0 /\ r.last_seen_at = now
                            /\ r.jti # r.id
    /\ now > 0

\* C34: an acquisition of a new device on a license whose device limit or
\* activation limit is reached is rejected with that error, and the rejected
\* call has written nothing: no Device row is inserted, no device's jti or
\* last_seen_at changes, and activation_count is unchanged.
C34_LimitRejectionWritesNothing ==
  [][\A p \in Procs :
       /\ (pc[p] = "acq_check" /\ pc'[p] # "acq_check"
           /\ DeviceFor(loc[p].lic, loc[p].dev) = {}
           /\ loc[p].lic \in DOMAIN licenses
           /\ \/ (loc[p].dlimit > 0
                  /\ count_devices_for_license(loc[p].lic) >= loc[p].dlimit)
              \/ (loc[p].alimit > 0
                  /\ licenses[loc[p].lic].activation_count >= loc[p].alimit))
            => /\ pc'[p] = "done"
               /\ loc'[p].res \in {"DeviceLimitReached", "ActivationLimitReached"}
       /\ (loc'[p].op = "acquire"
           /\ loc'[p].res \in {"DeviceLimitReached", "ActivationLimitReached"}
           /\ pc[p] # "done")
            => /\ devices' = devices
               /\ licenses' = licenses
               /\ created' = created
       /\ (pc[p] = "idle" /\ loc'[p].op = "acquire")
            => devices' = devices /\ licenses' = licenses]_vars

\* both rejections have happened, and the one device of the license is as it
\* was created
C34_Witness ==
  \E p \in Procs, l \in DOMAIN licenses :
    /\ DoneWith(p, "acquire", "ActivationLimitReached")
    /\ loc[p].lic = l
    /\ DeviceFor(l, loc[p].dev) = {}
    /\ licenses[l].activation_count = ActivationLimitOf(l)
    /\ count_devices_for_license(l) = 1
    /\ \A r \in DevicesOf(l) : r.jti = r.id /\ r.last_seen_at = r.activated_at

\* a scope row of the org that is org-wide or of the project asked about and
\* grants at least the access required
ScopeCovers(s, org_id, project_id, required_access) ==
  /\ s.org_id = org_id
  /\ s.project_id \in {"null", project_id}
  /\ s.access \in {"admin", required_access}

\* C35: check_api_key_scope answers true exactly when at least one scope of
\* the key has the org, has project_id null or the requested project, and
\* grants at least the required access (admin implies view), whatever other
\* scopes the key has and whichever row a lookup returns first.
C35_ScopeCheckIsExistential ==
  auth.stage = "scope_checked"
    => (auth.status = "true"
          <=> \E s \in auth.req.scopes :
                ScopeCovers(s, auth.req.org_id, auth.req.project_id,
                            RequiredAccess(auth.req)))

\* C36: a license's revoked_jtis only grows: no step of any interleaving of
\* device deactivations on the license, two concurrent deactivations of
\* different devices included, removes a jti from the list, so the jti of
\* every deactivated device stays in it.
C36_RevokedJtisOnlyGrows ==
  [][\A l \in DOMAIN licenses :
       l \in DOMAIN licenses'
         => \A i \in 1..Len(licenses[l].revoked_jtis) :
              SeqContains(licenses'[l].revoked_jtis,
                          licenses[l].revoked_jtis[i])]_vars

\* C37: if an operator with role owner exists, then after any sequence or
\* interleaving of update_operator and delete_operator requests at least one
\* operator with role owner still exists.
C37_AnOwnerRemains == \E o \in OperatorIds : operators[o] = "owner"

\* C38: a validate call that answers valid:false changes no stored state;
\* the validate calls that change a device's last_seen_at are those that
\* answer valid:true.
C38_InvalidValidateWritesNothing ==
  [][\A p \in Procs :
       (pc[p] # "done" /\ pc'[p] = "done" /\ loc'[p].op = "validate"
        /\ loc'[p].res = "invalid")
         => /\ devices' = devices
            /\ licenses' = licenses
            /\ products' = products]_vars

\* the jtis with which a validate call for the device would answer valid:true
ValidatingJtis(l, d) ==
  {j \in Uids :
     /\ \E r \in DeviceByJti(j) : r.license_id = l /\ r.device_id = d
     /\ \E proj \in Projects : validate_license_response(j, proj) = "valid"}

\* C39: at any time at most one jti validates per device; once a
\* re-redemption of an existing device has put a new jti on its row, a
\* validate call with the previous jti answers valid:false, and only the jti
\* the row holds can validate.
C39_OnlyLatestJtiValidates ==
  [][/\ \A l \in DOMAIN licenses', d \in DeviceIds :
          Cardinality(ValidatingJtis(l, d)') <= 1
     /\ \A r \in devices, n \in devices' :
          (n.id = r.id /\ n.jti # r.jti)
            => \A proj \in Projects :
                 validate_license_response(r.jti, proj)' # "valid"
     /\ \A p \in Procs :
          (pc[p] = "idle" /\ loc'[p].op = "validate"
           /\ DeviceByJti(loc'[p].jti) = {})
            => pc'[p] = "done" /\ loc'[p].res = "invalid"]_vars

\* a device was redeemed twice; a validate call with its first jti has
\* answered valid:false while the jti now on the row validates
C39_Witness ==
  \E p \in Procs, r \in devices :
    /\ DoneWith(p, "validate", "invalid")
    /\ loc[p].jti = r.id
    /\ r.jti # r.id
    /\ r.jti \in ValidatingJtis(r.license_id, r.device_id)
    /\ ~SeqContains(licenses[r.license_id].revoked_jtis, loc[p].jti)

\* C40: revocation is permanent: no step of a renewal webhook, a redemption,
\* a device deactivation or a repeated revoke clears a license's revoked flag;
\* a redeem that starts on a revoked license is rejected and neither creates
\* nor updates a Device, and a validate that starts with the jti of a device
\* of a revoked license answers valid:false.
C40_RevocationIsPermanent ==
  [][/\ \A l \in DOMAIN licenses :
          licenses[l].revoked
            => l \in DOMAIN licenses' /\ licenses'[l].revoked
     /\ \A p \in Procs :
          /\ (pc[p] = "idle" /\ loc'[p].op = "redeem"
              /\ \A l \in DOMAIN licenses : licenses[l].revoked)
               => /\ pc'[p] = "done"
                  /\ loc'[p].res \in {"LicenseRevoked", "NotFound"}
                  /\ devices' = devices
                  /\ created' = created
          /\ (pc[p] = "idle" /\ loc'[p].op = "validate"
              /\ \A r \in DeviceByJti(loc'[p].jti) :
                   r.license_id \in DOMAIN licenses
                     /\ licenses[r.license_id].revoked)
               => /\ pc'[p] = "done"
                  /\ loc'[p].res = "invalid"
                  /\ devices' = devices
          /\ (pc[p] = "idle" /\ loc'[p].op = "revoke"
              /\ \E l \in DOMAIN licenses : l = loc'[p].lic /\ licenses[l].revoked)
               => licenses' = licenses]_vars

\* the license was revoked with a device on it and renewed by a webhook; a
\* redeem was then rejected and a validate with the device's jti answered
\* valid:false
C40_Witness ==
  \E p \in Procs, q \in Procs, l \in DOMAIN licenses :
    /\ licenses[l].revoked
    /\ renewed["evt1"] # {}
    /\ licenses[l].expires_at # Null /\ licenses[l].expires_at > now
    /\ DoneWith(p, "redeem", "LicenseRevoked")
    /\ DoneWith(q, "validate", "invalid")
    /\ \E r \in DeviceByJti(loc[q].jti) :
         r.license_id = l
           /\ ~SeqContains(licenses[l].revoked_jtis, loc[q].jti)

====
